---- MODULE Spec2Model ----
(***************************************************************************)
(* The cart screen of the storefront client (src/unnamed/part_002): the    *)
(* order-total computation (coupon discount, shipping cost, tax lines, GST *)
(* breakdown, payment-method selection) and the screen's state machine     *)
(* (loadCart, updateQuantity, removeItem, removeCoupon,                    *)
(* updateShippingMethod, handleCheckout) with its remote calls in flight.  *)
(*                                                                         *)
(* Numbers.  JavaScript numbers are modelled as fixed-point integers: the  *)
(* value 1.00 is One units, so one unit is half a hundredth.  With whole   *)
(* currency prices and whole percentages every product, percentage and     *)
(* half the code computes is exact in this representation.  Numeric        *)
(* strings are sequences of one-character strings ("18" is <<"1","8">>)    *)
(* and parseFloat / toFixed are computed on them, digit by digit.          *)
(* A nullable value is a sequence of length 0 (null) or 1.                 *)
(***************************************************************************)
EXTENDS Integers, Sequences, FiniteSets, TLC

\* units in 1.00: two decimal places, and halves of a hundredth
One == 2 * 100
\* units in 0.01
Cent == One \div 100

Null == <<>>
Some(x) == <<x>>

(* ------------------------------ strings ------------------------------ *)
Digits == {"0", "1", "2", "3", "4", "5", "6", "7", "8", "9"}

DigitVal(c) ==
  CASE c = "0" -> 0 [] c = "1" -> 1 [] c = "2" -> 2 [] c = "3" -> 3
    [] c = "4" -> 4 [] c = "5" -> 5 [] c = "6" -> 6 [] c = "7" -> 7
    [] c = "8" -> 8 [] c = "9" -> 9

\* the digits of s from position i on: <<their value, the first position after them>>
RECURSIVE IntPrefix(_, _, _)
IntPrefix(s, i, acc) ==
  IF i <= Len(s) /\ s[i] \in Digits
    THEN IntPrefix(s, i + 1, acc * 10 + DigitVal(s[i]))
    ELSE <<acc, i>>

\* the fraction digits of s from position i on, the next digit weighing w/10
RECURSIVE FracPrefix(_, _, _, _)
FracPrefix(s, i, acc, w) ==
  IF i <= Len(s) /\ s[i] \in Digits
    THEN FracPrefix(s, i + 1, acc + DigitVal(s[i]) * (w \div 10), w \div 10)
    ELSE <<acc, i>>

\* parseFloat: the longest numeric prefix [-]digits[.digits], in units; Null is NaN
parseFloat(s) ==
  LET neg == Len(s) >= 1 /\ s[1] = "-"
      st == IF neg THEN 2 ELSE 1
      ip == IntPrefix(s, st, 0)
      hasInt == ip[2] > st
      hasDot == ip[2] <= Len(s) /\ s[ip[2]] = "."
      fp == IF hasDot THEN FracPrefix(s, ip[2] + 1, 0, One * 1000) ELSE <<0, ip[2]>>
      hasFrac == hasDot /\ fp[2] > ip[2] + 1
      mag == ip[1] * One + fp[1] \div 1000
  IN  IF ~hasInt /\ ~hasFrac THEN Null ELSE Some(IF neg THEN 0 - mag ELSE mag)

\* toNum(v): parseFloat(String(v)), 0 when that is not finite
toNum(s) ==
  LET n == parseFloat(s) IN IF n = Null THEN 0 ELSE n[1]

DigitChar(n) == <<"0", "1", "2", "3", "4", "5", "6", "7", "8", "9">>[n + 1]

\* the decimal digits of a natural number
RECURSIVE DigitsOf(_)
DigitsOf(n) ==
  IF n < 10 THEN <<DigitChar(n)>> ELSE Append(DigitsOf(n \div 10), DigitChar(n % 10))

\* x.toString(): the shortest decimal text of x, [-]digits[.digits]
NumberToString(x) ==
  LET a == IF x < 0 THEN 0 - x ELSE x
      th == ((a % One) * 1000) \div One
      d1 == th \div 100
      d2 == (th \div 10) % 10
      d3 == th % 10
      frac == IF th = 0 THEN <<>>
              ELSE IF d3 # 0 THEN <<".", DigitChar(d1), DigitChar(d2), DigitChar(d3)>>
              ELSE IF d2 # 0 THEN <<".", DigitChar(d1), DigitChar(d2)>>
              ELSE <<".", DigitChar(d1)>>
  IN  (IF x < 0 THEN <<"-">> ELSE <<>>) \o DigitsOf(a \div One) \o frac

\* x.toFixed(2): the string "d.dd", held as its number of hundredths
\* (half a hundredth rounds away from zero)
toFixed2(x) ==
  LET a == IF x < 0 THEN 0 - x ELSE x
      n == (a + (Cent \div 2)) \div Cent
  IN  IF x < 0 THEN 0 - n ELSE n

\* Number("d.dd") / toNum("d.dd") of a toFixed(2) string, in units
NumberOfFixed(c) == c * Cent

\* a * b of two fixed-point numbers: (a * b) / One, computed without leaving 32 bits
Mul(a, b) == (a \div One) * b + ((a % One) * b) \div One

\* the sum of the function f over the finite set S
RECURSIVE SetSum(_, _)
SetSum(S, f) ==
  IF S = {} THEN 0
  ELSE LET x == CHOOSE y \in S : TRUE IN f[x] + SetSum(S \ {x}, f)

Map(F(_), s) == [i \in 1..Len(s) |-> F(s[i])]

Includes(s, x) == \E i \in 1..Len(s) : s[i] = x

\* Array.prototype.find: the first element satisfying P, or Null
Find(P(_), s) ==
  LET hits == SelectSeq(s, P) IN IF hits = <<>> THEN Null ELSE Some(hits[1])

(* ------------------------------ helpers ------------------------------ *)
\* the sum of the unit prices, whatever the quantities
RECURSIVE SubtotalUnitPrices(_)
SubtotalUnitPrices(items) ==
  IF items = <<>> THEN 0 ELSE Head(items).price + SubtotalUnitPrices(Tail(items))

\* items.reduce((s, it) => s + it.price * it.quantity, 0)
RECURSIVE Subtotal(_)
Subtotal(items) ==
  IF items = <<>> THEN 0
  ELSE Head(items).price * Head(items).quantity + Subtotal(Tail(items))

\* a fixed-cart coupon capped at the subtotal
CouponTermCapped(subtotal, c) ==
  IF c.discount_type = "percent" THEN Mul(subtotal, parseFloat(c.amount)[1]) \div 100
  ELSE IF c.discount_type = "fixed_cart"
    THEN (IF parseFloat(c.amount)[1] > subtotal THEN subtotal ELSE parseFloat(c.amount)[1])
  ELSE 0

\* a percent coupon taken as an amount of money
CouponTermPercentAsAmount(subtotal, c) ==
  IF c.discount_type = "percent" THEN parseFloat(c.amount)[1]
  ELSE IF c.discount_type = "fixed_cart" THEN parseFloat(c.amount)[1]
  ELSE 0

\* one coupon's term of the reduce in calcCouponDiscount
CouponTerm(subtotal, c) ==
  IF c.discount_type = "percent" THEN Mul(subtotal, parseFloat(c.amount)[1]) \div 100
  ELSE IF c.discount_type = "fixed_cart" THEN parseFloat(c.amount)[1]
  ELSE 0

RECURSIVE calcCouponDiscount(_, _)
calcCouponDiscount(subtotal, coupons) ==
  IF coupons = <<>> THEN 0
  ELSE CouponTerm(subtotal, Head(coupons)) + calcCouponDiscount(subtotal, Tail(coupons))

(* ------------------------- shipping cost ----------------------------- *)
\* A cost expression (settings.cost.value) is a sequence of tokens: a number
\* literal (its digits), an operator, or one of the placeholders [qty], [cost].
NumTok(s) == [t |-> "num", s |-> s, op |-> ""]
OpTok(o) == [t |-> "op", s |-> <<>>, op |-> o]
QtyTok == [t |-> "qty", s |-> <<>>, op |-> ""]
CostTok == [t |-> "cost", s |-> <<>>, op |-> ""]
\* a number substituted into the expression: the text of n.toString()
ValTok(n) == [t |-> "num", s |-> NumberToString(n), op |-> ""]

\* costFormula.includes('[qty]')
HasTok(f, t) == \E i \in 1..Len(f) : f[i].t = t

\* costFormula.replace('[qty]', v): a string pattern replaces the first occurrence only
ReplaceFirst(f, t, v) ==
  LET k == CHOOSE i \in 1..Len(f) : f[i].t = t /\ \A j \in 1..(i - 1) : f[j].t # t
  IN  [f EXCEPT ![k] = ValTok(v)]

IsNumber(tok) == tok.t = "num"
TokVal(tok) == parseFloat(tok.s)[1]

\* eval(baseCost) throws when a placeholder is left ([cost] is an array literal
\* over an undeclared identifier) or the text is no expression: number, then
\* operator and number any number of times
EvalThrows(f) ==
  ~ /\ Len(f) % 2 = 1
    /\ \A i \in 1..Len(f) : IF i % 2 = 1 THEN IsNumber(f[i]) ELSE f[i].t = "op"

\* the value of the expression from operator position i on: sum is the value of the
\* terms before the current one, term the product so far of the current one
RECURSIVE EvalFrom(_, _, _, _)
EvalFrom(f, i, sum, term) ==
  IF i > Len(f) THEN sum + term
  ELSE CASE f[i].op = "*" -> EvalFrom(f, i + 2, sum, Mul(term, TokVal(f[i + 1])))
         [] f[i].op = "+" -> EvalFrom(f, i + 2, sum + term, TokVal(f[i + 1]))
         [] f[i].op = "-" -> EvalFrom(f, i + 2, sum + term, 0 - TokVal(f[i + 1]))

\* eval(baseCost) of an expression that does not throw
Eval(f) == EvalFrom(f, 2, 0, TokVal(f[1]))

\* a fallback of 0 whatever the raw expression starts with
ToNumCostZero(f) == 0

\* toNum(settings.cost.value): the numeric prefix of the raw expression, else 0
toNumCost(f) ==
  IF Len(f) >= 1 /\ f[1].t = "num" THEN toNum(f[1].s) ELSE 0

RECURSIVE TotalQuantity(_)
TotalQuantity(items) ==
  IF items = <<>> THEN 0 ELSE Head(items).quantity + TotalQuantity(Tail(items))

calculateShippingCost(shippingMethod, cartItems) ==
  LET costFormula == shippingMethod.cost IN
  IF HasTok(costFormula, "qty") THEN
    LET baseCost == ReplaceFirst(costFormula, "qty", TotalQuantity(cartItems) * One)
    IN  IF EvalThrows(baseCost) THEN toNumCost(costFormula) ELSE Eval(baseCost)
  ELSE IF HasTok(costFormula, "cost") THEN
    LET baseCost == ReplaceFirst(costFormula, "cost", Subtotal(cartItems))
    IN  IF EvalThrows(baseCost) THEN toNumCost(costFormula) ELSE Eval(baseCost)
  ELSE toNumCost(costFormula)

ShippingLineOf(method, items) ==
  [id |-> method.id, method_id |-> method.method_id, instance_id |-> method.instance_id,
   total |-> toFixed2(calculateShippingCost(method, items))]

calculateShippingLines(methods, items) ==
  IF Len(methods) = 0 \/ Len(items) = 0 THEN <<>>
  ELSE Map(LAMBDA m : ShippingLineOf(m, items), SelectSeq(methods, LAMBDA m : m.enabled))

\* selectDefaultFlatRateMethod without its flat_rate preference
SelectFirstEnabled(methods, items) ==
  IF Len(methods) = 0 THEN Null
  ELSE Find(LAMBDA m : m.enabled, methods)

selectDefaultFlatRateMethod(methods, items) ==
  IF Len(methods) = 0 THEN Null
  ELSE LET flatRateMethod == Find(LAMBDA m : m.method_id = "flat_rate" /\ m.enabled, methods)
       IN  IF flatRateMethod # Null THEN flatRateMethod
           ELSE Find(LAMBDA m : m.enabled, methods)

\* shipping.reduce((total, line) => total + toNum(line.total), 0)
RECURSIVE ShippingTotalOf(_)
ShippingTotalOf(lines) ==
  IF lines = <<>> THEN 0
  ELSE NumberOfFixed(Head(lines).total) + ShippingTotalOf(Tail(lines))

(* ------------------------------ taxes -------------------------------- *)
\* item.tax_class || 'standard' (an absent tax class is the empty string)
TaxClassOf(item) == IF item.tax_class = "" THEN "standard" ELSE item.tax_class

\* the keys of itemsByTaxClass, in insertion order
RECURSIVE ClassKeys(_, _)
ClassKeys(items, seen) ==
  IF items = <<>> THEN seen
  ELSE LET c == TaxClassOf(Head(items))
       IN  ClassKeys(Tail(items), IF Includes(seen, c) THEN seen ELSE Append(seen, c))

\* the class subtotal assigned (=) where the code accumulates (+=)
ClassSubtotalLast(items, taxClass) ==
  LET own == SelectSeq(items, LAMBDA it : TaxClassOf(it) = taxClass)
  IN  IF own = <<>> THEN 0 ELSE own[Len(own)].price * own[Len(own)].quantity

\* itemsByTaxClass[taxClass].subtotal
ClassSubtotal(items, taxClass) ==
  Subtotal(SelectSeq(items, LAMBDA it : TaxClassOf(it) = taxClass))

applicableRates(taxRates, taxClass) ==
  SelectSeq(taxRates, LAMBDA r : r.class = taxClass \/ (taxClass = "standard" /\ r.class = ""))

\* shipping taxed by every rate, whatever its shipping flag
TaxLineShippingAlways(rate, classSubtotal, shippingTotal, taxClass) ==
  LET ratePercent == toNum(rate.rate)
  IN  [id |-> rate.id, rate_id |-> rate.id,
       tax_total |-> Mul(classSubtotal, ratePercent) \div 100,
       shipping_tax_total |-> Mul(shippingTotal, ratePercent) \div 100,
       rate_percent |-> ratePercent, tax_class |-> taxClass]

TaxLine(rate, classSubtotal, shippingTotal, taxClass) ==
  LET ratePercent == toNum(rate.rate)
  IN  [id |-> rate.id, rate_id |-> rate.id,
       tax_total |-> Mul(classSubtotal, ratePercent) \div 100,
       shipping_tax_total |->
         IF rate.shipping THEN Mul(shippingTotal, ratePercent) \div 100 ELSE 0,
       rate_percent |-> ratePercent, tax_class |-> taxClass]

\* applicableRates.forEach(rate => ...), on the running totals
RECURSIVE AddRates(_, _, _, _, _)
AddRates(acc, rates, classSubtotal, shippingTotal, taxClass) ==
  IF rates = <<>> THEN acc
  ELSE LET l == TaxLine(Head(rates), classSubtotal, shippingTotal, taxClass)
       IN  AddRates([tax_total |-> acc.tax_total + l.tax_total,
                     shipping_tax_total |-> acc.shipping_tax_total + l.shipping_tax_total,
                     tax_lines |-> Append(acc.tax_lines, l)],
                    Tail(rates), classSubtotal, shippingTotal, taxClass)

\* Object.entries(itemsByTaxClass).forEach(...)
RECURSIVE AddClasses(_, _, _, _, _)
AddClasses(acc, classes, items, shippingTotal, taxRates) ==
  IF classes = <<>> THEN acc
  ELSE AddClasses(AddRates(acc, applicableRates(taxRates, Head(classes)),
                           ClassSubtotal(items, Head(classes)), shippingTotal, Head(classes)),
                  Tail(classes), items, shippingTotal, taxRates)

calculateTaxes(cartItems, subtotal, shippingTotal, taxRates) ==
  AddClasses([tax_total |-> 0, shipping_tax_total |-> 0, tax_lines |-> <<>>],
             ClassKeys(cartItems, <<>>), cartItems, shippingTotal, taxRates)

(* --------------------------- GST breakdown --------------------------- *)
\* taxCalculation.tax_lines.forEach(...), on the two bucket accumulators
RECURSIVE GstBuckets(_, _)
GstBuckets(acc, lines) ==
  IF lines = <<>> THEN acc
  ELSE LET halfTax == Head(lines).tax_total \div 2
           halfShippingTax == Head(lines).shipping_tax_total \div 2
       IN  GstBuckets([cgst |-> acc.cgst + halfTax + halfShippingTax,
                       sgst |-> acc.sgst + halfTax + halfShippingTax],
                      Tail(lines))

calculateGSTBreakdown(taxCalculation) ==
  IF taxCalculation = Null THEN [cgst |-> 0, sgst |-> 0, igst |-> 0, total |-> 0]
  ELSE LET b == GstBuckets([cgst |-> 0, sgst |-> 0], taxCalculation[1].tax_lines)
           igst == 0
       IN  [cgst |-> NumberOfFixed(toFixed2(b.cgst)),
            sgst |-> NumberOfFixed(toFixed2(b.sgst)),
            igst |-> NumberOfFixed(toFixed2(igst)),
            total |-> NumberOfFixed(toFixed2(b.cgst + b.sgst + igst))]

(* ------------------------- payment method ---------------------------- *)
\* item.payment_methods?.includes('cod') || !item.payment_methods || length === 0
SupportsCOD(item) ==
  \/ item.pm_defined /\ Includes(item.payment_methods, "cod")
  \/ ~item.pm_defined
  \/ Len(item.payment_methods) = 0

\* the gateways unfiltered
AllGateways(paymentGateways) == paymentGateways

\* paymentGateways.filter(gateway => gateway.enabled)
EnabledGateways(paymentGateways) == SelectSeq(paymentGateways, LAMBDA g : g.enabled)

determinePaymentMethod(cartItems, paymentGateways) ==
  LET enabledGateways == EnabledGateways(paymentGateways)
      allProductsSupportCOD == \A i \in 1..Len(cartItems) : SupportsCOD(cartItems[i])
      codGateway == Find(LAMBDA g : g.id = "cod", enabledGateways)
      razorpayGateway == Find(LAMBDA g : g.id = "razorpay", enabledGateways)
  IN  IF allProductsSupportCOD /\ codGateway # Null
        THEN Some([method |-> "cod", gateway |-> codGateway[1]])
      ELSE IF razorpayGateway # Null
        THEN Some([method |-> "razorpay", gateway |-> razorpayGateway[1]])
      ELSE IF codGateway # Null
        THEN Some([method |-> "cod", gateway |-> codGateway[1]])
      ELSE Null

(* ===================================================================== *)
(*                     The remote collaborators' data                     *)
(* ===================================================================== *)
\* largest quantity a cart line is taken to
MaxQty == 2
\* most loadCart runs (the first load and the reloads on focus or Retry)
MaxLoads == 2
\* most presses of a cart control (quantity, remove, shipping option, coupon remove)
MaxOps == 2

ProductIds == {"p1", "p2"}

\* getProductDetail(id).data
Catalog(id) ==
  IF id = "p1" THEN [id |-> "p1", price |-> <<"1", "0", "0">>, tax_class |-> ""]
  ELSE [id |-> "p2", price |-> <<"9", "9">>, tax_class |-> "reduced-rate"]

\* GET /taxes
ServerRates ==
  << [id |-> 1, rate |-> <<"1", "8", ".", "0", "0">>, shipping |-> TRUE, class |-> ""],
     [id |-> 2, rate |-> <<"5">>, shipping |-> FALSE, class |-> "reduced-rate"] >>

\* GET /shipping/zones/1/methods
ServerMethods ==
  << [id |-> 1, instance_id |-> 1, enabled |-> TRUE, method_id |-> "free_shipping",
      cost |-> <<NumTok(<<"0">>)>>],
     [id |-> 2, instance_id |-> 2, enabled |-> TRUE, method_id |-> "flat_rate",
      cost |-> <<NumTok(<<"1", "0">>), OpTok("*"), QtyTok>>],
     [id |-> 3, instance_id |-> 3, enabled |-> FALSE, method_id |-> "local_pickup",
      cost |-> <<NumTok(<<"5">>)>>] >>

\* GET /payment_gateways
ServerGateways ==
  << [id |-> "cod", enabled |-> TRUE, title |-> "Cash on delivery"],
     [id |-> "razorpay", enabled |-> TRUE, title |-> "Razorpay"],
     [id |-> "paypal", enabled |-> FALSE, title |-> "PayPal"] >>

\* the customer's persisted 'cart' meta when the screen is first opened: quantities
\* as any client of the store left them
InitCarts ==
  { << [id |-> "p1", quantity |-> 1], [id |-> "p2", quantity |-> 0] >>,
    << [id |-> "p1", quantity |-> 0 - 1] >> }

\* the customer's persisted 'applied_coupons' meta when the screen is first opened
InitCoupons ==
  << [code |-> "save10", amount |-> <<"1", "0">>, discount_type |-> "percent"],
     [code |-> "flat5", amount |-> <<"5", ".", "0", "0">>, discount_type |-> "fixed_cart"] >>

CouponCodes == {"save10", "flat5"}

UserId == 7

(* ===================================================================== *)
(*                          The cart screen                               *)
(* ===================================================================== *)
VARIABLES
  \* component state (useState)
  cartItems, loading, userId, errorText, busyQty, busyRemove, appliedCoupons,
  busyCoupon, shippingMethods, selectedShippingMethod, shippingLines, taxRates,
  taxCalculation, taxLoading, shippingLoading, paymentGateways, selectedPaymentMethod,
  \* the customer record on the server
  srvCart, srvCoupons,
  \* the loadCart run in flight, the updateCartMeta calls in flight, the removeCoupon
  \* calls in flight
  load, tasks, couponTasks,
  \* what the last step handed to the router / showed as an alert
  nav, alerted,
  \* how many loadCart runs and control presses there have been
  used,
  \* the calculator specifications' input and output
  calcIn, calcOut,
  \* the change-password screen: its fields, its submitting flag, where handleSubmit
  \* is, and what its last step sent, alerted and navigated to
  pwd,
  \* the 'People also viewed' list: its state, its calls in flight and what it has
  \* announced
  pv,
  \* the chat screen: its state, the product-chat server's messages and the requests
  \* and timers in flight
  chat

screenVars ==
  <<cartItems, loading, userId, errorText, busyQty, busyRemove, appliedCoupons,
    busyCoupon, shippingMethods, selectedShippingMethod, shippingLines, taxRates,
    taxCalculation, taxLoading, shippingLoading, paymentGateways, selectedPaymentMethod>>
serverVars == <<srvCart, srvCoupons>>
calcVars == <<calcIn, calcOut>>
\* the state of the screens other than the cart
otherVars == <<pwd, pv, chat>>
\* everything of the cart screen and of the calculators
cartVars == <<screenVars, serverVars, load, tasks, couponTasks, nav, alerted, used, calcVars>>
vars == <<screenVars, serverVars, load, tasks, couponTasks, nav, alerted, used, calcVars,
          otherVars>>

IdleLoad == [pc |-> "idle", rates |-> Null, methods |-> Null, gateways |-> Null, failed |-> {}]

NoCalc == [fn |-> "none"]

\* ChangePassword as mounted: three empty fields, not submitting
PwdBlank ==
  [currentPwd |-> <<>>, newPwd |-> <<>>, confirmPwd |-> <<>>, submitting |-> FALSE,
   pc |-> "idle", sending |-> <<>>, sent |-> Null, alert |-> "", nav |-> ""]

\* the products the 'People also viewed' list shows (their effective ids)
PvProducts == {"p1", "p3", "p4"}

\* PeopleAlsoViewed as mounted
PvBlank ==
  [userId |-> Null, cartIds |-> <<>>, loadingCart |-> [p \in PvProducts |-> FALSE],
   calls |-> {}, feedbackMessage |-> "", nav |-> "", added |-> {}, loads |-> 0]

\* the products of the store
ChatProducts == {1, 2}

\* GET product-chat/v1/fetch of each product when the chat screen is first opened
\* (customer 7 and the admin, user 1; the server does not send them in time order)
InitMessages ==
  [p \in ChatProducts |->
     IF p = 1
       THEN << [id |-> 101, message |-> <<"h", "i">>, user_id |-> <<"7">>, created_at |-> 3,
                is_read |-> "1"],
               [id |-> 102, message |-> <<"y", "o">>, user_id |-> <<"1">>, created_at |-> 1,
                is_read |-> "0"] >>
       ELSE << [id |-> 201, message |-> <<"o", "y">>, user_id |-> <<"7">>, created_at |-> 2,
                is_read |-> "true"] >>]

\* ChatScreen as mounted
ChatBlank ==
  [pc |-> "mount", userId |-> Null, products |-> <<>>, loadingProducts |-> FALSE,
   selectedProduct |-> Null, messages |-> <<>>, inputMsg |-> <<>>,
   loadingMessages |-> FALSE, editModalVisible |-> FALSE, deleteModalVisible |-> FALSE,
   selectedMessageId |-> Null, editText |-> <<>>, longPressedMessage |-> Null,
   alert |-> "", calls |-> {}, srv |-> InitMessages, clock |-> 0, ops |-> 0]

ScreenInit ==
  /\ cartItems = <<>> /\ loading = TRUE /\ userId = Null /\ errorText = ""
  /\ busyQty = [p \in ProductIds |-> FALSE]
  /\ busyRemove = [p \in ProductIds |-> FALSE]
  /\ appliedCoupons = <<>>
  /\ busyCoupon = [c \in CouponCodes |-> FALSE]
  /\ shippingMethods = <<>> /\ selectedShippingMethod = Null /\ shippingLines = <<>>
  /\ taxRates = <<>> /\ taxCalculation = Null
  /\ taxLoading = FALSE /\ shippingLoading = FALSE
  /\ paymentGateways = <<>> /\ selectedPaymentMethod = Null
  /\ srvCart \in InitCarts /\ srvCoupons = InitCoupons
  /\ load = IdleLoad /\ tasks = {} /\ couponTasks = {}
  /\ nav = Null /\ alerted = FALSE
  /\ used = [loads |-> 0, ops |-> 0]
  /\ pwd = PwdBlank
  /\ pv = PvBlank
  /\ chat = ChatBlank

Init == ScreenInit /\ calcIn = NoCalc /\ calcOut = NoCalc

(* ------------------------- derived totals ---------------------------- *)
subtotal == Subtotal(cartItems)
couponDiscount == calcCouponDiscount(subtotal, appliedCoupons)
shippingTotal == ShippingTotalOf(shippingLines)
itemTaxTotal == IF taxCalculation = Null THEN 0 ELSE taxCalculation[1].tax_total
shippingTaxTotal == IF taxCalculation = Null THEN 0 ELSE taxCalculation[1].shipping_tax_total
totalTax == itemTaxTotal + shippingTaxTotal
gstBreakdown == calculateGSTBreakdown(taxCalculation)
\* the grand total with the coupon discount added where the code subtracts it
TotalDiscountAdded == subtotal + couponDiscount + shippingTotal + totalTax

total == subtotal - couponDiscount + shippingTotal + totalTax

(* ---------------------- recomputation and effects -------------------- *)
\* the value updateTaxCalculation(items, shipping, rates) hands to setTaxCalculation
updateTaxCalculation(items, shipping, rates) ==
  IF Len(rates) > 0
    THEN Some(calculateTaxes(items, Subtotal(items), ShippingTotalOf(shipping), rates))
    ELSE Null

\* useEffect([taxRates, cartItems, shippingLines]): runs after a render in which one of
\* them was set; cur is the value the step itself left in taxCalculation
TaxEffect(items, shipping, rates, cur) ==
  IF Len(items) > 0 \/ Len(rates) > 0 \/ Len(shipping) > 0
    THEN updateTaxCalculation(items, shipping, rates)
    ELSE cur

\* useEffect([cartItems, paymentGateways])
PaymentEffect(items, gateways, cur) ==
  IF Len(items) > 0 /\ Len(gateways) > 0
    THEN determinePaymentMethod(items, gateways)
    ELSE cur

\* the cart list, its controls, the shipping options and the checkout button are rendered
CartShown == ~loading /\ errorText = "" /\ Len(cartItems) > 0

InCart(id) == \E i \in 1..Len(cartItems) : cartItems[i].id = id
ItemOf(id) == cartItems[CHOOSE i \in 1..Len(cartItems) : cartItems[i].id = id]

\* what a step that is not handleCheckout leaves of the router call and the alert
NoOutput == nav' = Null /\ alerted' = FALSE /\ used' = used

\* a control is pressed
Press == nav' = Null /\ alerted' = FALSE /\ used.ops < MaxOps
         /\ used' = [used EXCEPT !.ops = @ + 1]

(* ------------------------------ loadCart ----------------------------- *)
\* the screen gains focus, or Retry is pressed: loadCart runs up to `await getSession()`
LoadStart ==
  /\ load.pc = "idle" /\ used.loads < MaxLoads
  /\ loading' = TRUE
  /\ errorText' = ""
  /\ load' = [IdleLoad EXCEPT !.pc = "session"]
  /\ nav' = Null /\ alerted' = FALSE /\ used' = [used EXCEPT !.loads = @ + 1]
  /\ UNCHANGED <<cartItems, userId, busyQty, busyRemove, appliedCoupons, busyCoupon,
                 shippingMethods, selectedShippingMethod, shippingLines, taxRates,
                 taxCalculation, taxLoading, shippingLoading, paymentGateways,
                 selectedPaymentMethod, serverVars, tasks, couponTasks, calcVars, otherVars>>

\* getSession() answers with no user: the early return, then the finally block
LoadNoSession ==
  /\ load.pc = "session"
  /\ errorText' = "Please log in to view your cart."
  /\ cartItems' = <<>>
  /\ loading' = FALSE
  /\ taxCalculation' = TaxEffect(cartItems', shippingLines, taxRates, taxCalculation)
  /\ selectedPaymentMethod' = PaymentEffect(cartItems', paymentGateways, selectedPaymentMethod)
  /\ load' = IdleLoad
  /\ NoOutput
  /\ UNCHANGED <<userId, busyQty, busyRemove, appliedCoupons, busyCoupon, shippingMethods,
                 selectedShippingMethod, shippingLines, taxRates, taxLoading,
                 shippingLoading, paymentGateways, serverVars, tasks, couponTasks, calcVars, otherVars>>

\* getSession() answers with the user: setUserId, then the three fetches are started
LoadSession ==
  /\ load.pc = "session"
  /\ userId' = Some(UserId)
  /\ taxLoading' = TRUE
  /\ shippingLoading' = TRUE
  /\ load' = [load EXCEPT !.pc = "fetch"]
  /\ NoOutput
  /\ UNCHANGED <<cartItems, loading, errorText, busyQty, busyRemove, appliedCoupons,
                 busyCoupon, shippingMethods, selectedShippingMethod, shippingLines,
                 taxRates, taxCalculation, paymentGateways, selectedPaymentMethod,
                 serverVars, tasks, couponTasks, calcVars, otherVars>>

\* what loadTaxRates resolves to: the rates, or [] when the fetch failed
loadTaxRates(ok) == IF ok THEN ServerRates ELSE <<>>

\* what loadShippingMethods resolves to: the enabled methods, or [] when the fetch failed
loadShippingMethods(ok) ==
  IF ok THEN SelectSeq(ServerMethods, LAMBDA m : m.enabled) ELSE <<>>

\* what loadPaymentGateways resolves to: the gateways, or [] when the fetch failed
loadPaymentGateways(ok) == IF ok THEN ServerGateways ELSE <<>>

\* The three fetches settle (in any order: until all have, nothing reads their results,
\* and the flags they clear are not rendered while loading is true) and Promise.all
\* resolves: setTaxRates, setShippingMethods, setPaymentGateways, then
\* `await getCustomerById`; the render in between runs both effects
LoadInputs(okRates, okMethods, okGateways) ==
  /\ load.pc = "fetch"
  /\ load' = [pc |-> "customer",
              rates |-> Some(loadTaxRates(okRates)),
              methods |-> Some(loadShippingMethods(okMethods)),
              gateways |-> Some(loadPaymentGateways(okGateways)),
              failed |-> {x \in {"rates", "methods", "gateways"} :
                            \/ x = "rates" /\ ~okRates
                            \/ x = "methods" /\ ~okMethods
                            \/ x = "gateways" /\ ~okGateways}]
  /\ taxLoading' = FALSE
  /\ shippingLoading' = FALSE
  /\ taxRates' = load'.rates[1]
  /\ shippingMethods' = load'.methods[1]
  /\ paymentGateways' = load'.gateways[1]
  /\ taxCalculation' = TaxEffect(cartItems, shippingLines, taxRates', taxCalculation)
  /\ selectedPaymentMethod' = PaymentEffect(cartItems, paymentGateways', selectedPaymentMethod)
  /\ NoOutput
  /\ UNCHANGED <<cartItems, loading, userId, errorText, busyQty, busyRemove,
                 appliedCoupons, busyCoupon, selectedShippingMethod, shippingLines,
                 serverVars, tasks, couponTasks, calcVars, otherVars>>

\* one entry of the persisted cart, with its product detail
FetchedItem(entry) ==
  LET productData == Catalog(entry.id)
  IN  [id |-> productData.id,
       price |-> toNum(productData.price),
       quantity |-> IF entry.quantity = 0 THEN 1 ELSE entry.quantity,
       tax_class |-> IF productData.tax_class = "" THEN "standard" ELSE productData.tax_class,
       payment_methods |-> <<"cod", "razorpay">>,
       pm_defined |-> TRUE]

\* the customer and every product detail arrive: the rest of the try block, then finally
LoadFinish ==
  /\ load.pc = "customer"
  /\ LET rates == load.rates[1]
         methods == load.methods[1]
         gateways == load.gateways[1]
         fetched == Map(FetchedItem, srvCart)
         defaultMethod == selectDefaultFlatRateMethod(methods, fetched)
         shippingData == IF defaultMethod # Null
                           THEN calculateShippingLines(defaultMethod, fetched)
                           ELSE <<>>
         setsShipping == Len(methods) > 0 /\ Len(fetched) > 0
     IN  /\ appliedCoupons' = srvCoupons
         /\ cartItems' = fetched
         /\ selectedShippingMethod' = IF setsShipping THEN defaultMethod
                                      ELSE selectedShippingMethod
         /\ shippingLines' = IF setsShipping THEN shippingData ELSE shippingLines
         /\ taxCalculation' =
              TaxEffect(cartItems', shippingLines', taxRates,
                        IF setsShipping THEN updateTaxCalculation(fetched, shippingData, rates)
                        ELSE updateTaxCalculation(fetched, <<>>, rates))
         /\ selectedPaymentMethod' =
              PaymentEffect(cartItems', paymentGateways,
                            determinePaymentMethod(fetched, gateways))
  /\ loading' = FALSE
  /\ load' = IdleLoad
  /\ NoOutput
  /\ UNCHANGED <<userId, errorText, busyQty, busyRemove, busyCoupon, shippingMethods,
                 taxRates, taxLoading, shippingLoading, paymentGateways, serverVars,
                 tasks, couponTasks, calcVars, otherVars>>

\* getSession, getCustomerById or getProductDetail rejects: the catch block, then finally
LoadFail ==
  /\ load.pc \in {"session", "customer"}
  /\ errorText' = "Failed to load cart. Please try again."
  /\ cartItems' = <<>>
  /\ loading' = FALSE
  /\ taxCalculation' = TaxEffect(cartItems', shippingLines, taxRates, taxCalculation)
  /\ selectedPaymentMethod' = PaymentEffect(cartItems', paymentGateways, selectedPaymentMethod)
  /\ load' = IdleLoad
  /\ NoOutput
  /\ UNCHANGED <<userId, busyQty, busyRemove, appliedCoupons, busyCoupon, shippingMethods,
                 selectedShippingMethod, shippingLines, taxRates, taxLoading,
                 shippingLoading, paymentGateways, serverVars, tasks, couponTasks, calcVars, otherVars>>

(* ------------------- updateQuantity / removeItem --------------------- *)
\* an updateCartMeta(items) call awaiting updateCustomerById, with the values of the
\* render its handler closed over
CartTask(op, id, items) ==
  [op |-> op, id |-> id, items |-> items, shippingMethods |-> shippingMethods,
   taxRates |-> taxRates, paymentGateways |-> paymentGateways]

\* the handler up to `await updateCustomerById` (or, with no userId, to its end)
StartCartTask(op, id, updated) ==
  /\ cartItems' = updated
  /\ taxCalculation' = TaxEffect(cartItems', shippingLines, taxRates, taxCalculation)
  /\ selectedPaymentMethod' = PaymentEffect(cartItems', paymentGateways, selectedPaymentMethod)
  /\ IF userId = Null
       THEN /\ tasks' = tasks
            /\ UNCHANGED <<busyQty, busyRemove>>
       ELSE /\ tasks' = tasks \cup {CartTask(op, id, updated)}
            /\ busyQty' = IF op = "qty" THEN [busyQty EXCEPT ![id] = TRUE] ELSE busyQty
            /\ busyRemove' = IF op = "remove" THEN [busyRemove EXCEPT ![id] = TRUE]
                             ELSE busyRemove
  /\ Press
  /\ UNCHANGED <<loading, userId, errorText, appliedCoupons, busyCoupon, shippingMethods,
                 selectedShippingMethod, shippingLines, taxRates, taxLoading,
                 shippingLoading, paymentGateways, serverVars, load, couponTasks, calcVars, otherVars>>

\* the - or + button of an item: updateQuantity(item.id, item.quantity -/+ 1)
UpdateQuantity(id, qty) ==
  /\ CartShown /\ InCart(id) /\ ~busyQty[id]
  /\ \/ qty = ItemOf(id).quantity - 1 /\ ItemOf(id).quantity > 1
     \/ qty = ItemOf(id).quantity + 1
  /\ qty <= MaxQty
  /\ qty >= 1
  /\ StartCartTask("qty", id,
       Map(LAMBDA it : IF it.id = id THEN [it EXCEPT !.quantity = qty] ELSE it, cartItems))

\* the + button of an item whose quantity is below 0: updateQuantity returns at
\* `if (qty < 1) return`
UpdateQuantityBelowOne(id, qty) ==
  /\ CartShown /\ InCart(id) /\ ~busyQty[id]
  /\ qty = ItemOf(id).quantity + 1
  /\ qty < 1
  /\ Press
  /\ UNCHANGED <<screenVars, serverVars, load, tasks, couponTasks, calcVars, otherVars>>

\* the Remove button of an item
RemoveItem(id) ==
  /\ CartShown /\ InCart(id) /\ ~busyRemove[id]
  /\ StartCartTask("remove", id, SelectSeq(cartItems, LAMBDA it : it.id # id))

ClearBusy(t) ==
  /\ busyQty' = IF t.op = "qty" THEN [busyQty EXCEPT ![t.id] = FALSE] ELSE busyQty
  /\ busyRemove' = IF t.op = "remove" THEN [busyRemove EXCEPT ![t.id] = FALSE] ELSE busyRemove

\* items.map((it) => ({ id: it.id, quantity: it.quantity }))
CartMeta(items) == Map(LAMBDA it : [id |-> it.id, quantity |-> it.quantity], items)

\* updateCustomerById resolves: the rest of updateCartMeta's try block, then the
\* handler's last line
PersistDone(t) ==
  /\ t \in tasks
  /\ srvCart' = CartMeta(t.items)
  /\ LET defaultMethod == selectDefaultFlatRateMethod(t.shippingMethods, t.items)
         shippingData == IF defaultMethod # Null
                           THEN calculateShippingLines(defaultMethod, t.items)
                           ELSE <<>>
         setsShipping == Len(t.shippingMethods) > 0
     IN  /\ selectedShippingMethod' = IF setsShipping THEN defaultMethod
                                      ELSE selectedShippingMethod
         /\ shippingLines' = IF setsShipping THEN shippingData ELSE shippingLines
         /\ taxCalculation' =
              IF setsShipping
                THEN TaxEffect(cartItems, shippingLines', taxRates,
                               updateTaxCalculation(t.items, shippingData, t.taxRates))
                ELSE updateTaxCalculation(t.items, <<>>, t.taxRates)
  /\ selectedPaymentMethod' = determinePaymentMethod(t.items, t.paymentGateways)
  /\ ClearBusy(t)
  /\ tasks' = tasks \ {t}
  /\ NoOutput
  /\ UNCHANGED <<cartItems, loading, userId, errorText, appliedCoupons, busyCoupon,
                 shippingMethods, taxRates, taxLoading, shippingLoading, paymentGateways,
                 srvCoupons, load, couponTasks, calcVars, otherVars>>

\* updateCustomerById rejects: the catch block logs, then the handler's last line
PersistFailed(t) ==
  /\ t \in tasks
  /\ ClearBusy(t)
  /\ tasks' = tasks \ {t}
  /\ NoOutput
  /\ UNCHANGED <<cartItems, loading, userId, errorText, appliedCoupons, busyCoupon,
                 shippingMethods, selectedShippingMethod, shippingLines, taxRates,
                 taxCalculation, taxLoading, shippingLoading, paymentGateways,
                 selectedPaymentMethod, serverVars, load, couponTasks, calcVars, otherVars>>

(* ----------------------- updateShippingMethod ------------------------ *)
\* updateShippingMethod adding the method's line to the lines already held
UpdateShippingMethodAppending(method) ==
  /\ CartShown /\ ~shippingLoading /\ Includes(shippingMethods, method)
  /\ selectedShippingMethod' = Some(method)
  /\ shippingLines' = shippingLines \o calculateShippingLines(<<method>>, cartItems)
  /\ taxCalculation' = TaxEffect(cartItems, shippingLines', taxRates,
                                 updateTaxCalculation(cartItems, shippingLines', taxRates))
  /\ Press
  /\ UNCHANGED <<cartItems, loading, userId, errorText, busyQty, busyRemove,
                 appliedCoupons, busyCoupon, shippingMethods, taxRates, taxLoading,
                 shippingLoading, paymentGateways, selectedPaymentMethod, serverVars,
                 load, tasks, couponTasks, calcVars, otherVars>>

\* a shipping option is pressed
UpdateShippingMethod(method) ==
  /\ CartShown /\ ~shippingLoading /\ Includes(shippingMethods, method)
  /\ selectedShippingMethod' = Some(method)
  /\ shippingLines' = calculateShippingLines(<<method>>, cartItems)
  /\ taxCalculation' = TaxEffect(cartItems, shippingLines', taxRates,
                                 updateTaxCalculation(cartItems, shippingLines', taxRates))
  /\ Press
  /\ UNCHANGED <<cartItems, loading, userId, errorText, busyQty, busyRemove,
                 appliedCoupons, busyCoupon, shippingMethods, taxRates, taxLoading,
                 shippingLoading, paymentGateways, selectedPaymentMethod, serverVars,
                 load, tasks, couponTasks, calcVars, otherVars>>

(* --------------------------- removeCoupon ---------------------------- *)
\* the Remove button of a coupon: removeCoupon up to `await getCustomerById`
RemoveCoupon(code) ==
  /\ CartShown /\ ~busyCoupon[code]
  /\ \E i \in 1..Len(appliedCoupons) : appliedCoupons[i].code = code
  /\ IF userId = Null
       THEN UNCHANGED <<busyCoupon, couponTasks>>
       ELSE /\ busyCoupon' = [busyCoupon EXCEPT ![code] = TRUE]
            /\ couponTasks' = couponTasks \cup
                 {[code |-> code, pc |-> "get", cart |-> <<>>,
                   newList |-> SelectSeq(appliedCoupons, LAMBDA c : c.code # code)]}
  /\ Press
  /\ UNCHANGED <<cartItems, loading, userId, errorText, busyQty, busyRemove,
                 appliedCoupons, shippingMethods, selectedShippingMethod, shippingLines,
                 taxRates, taxCalculation, taxLoading, shippingLoading, paymentGateways,
                 selectedPaymentMethod, serverVars, load, tasks, calcVars, otherVars>>

\* getCustomerById resolves: newMeta is every other key as read, plus the new list;
\* updateCustomerById is sent
CouponCustomerRead(t) ==
  /\ t \in couponTasks /\ t.pc = "get"
  /\ couponTasks' = (couponTasks \ {t}) \cup {[t EXCEPT !.pc = "put", !.cart = srvCart]}
  /\ NoOutput
  /\ UNCHANGED <<screenVars, serverVars, load, tasks, calcVars, otherVars>>

\* removeCoupon finishing without its list having reached the server
CouponPersistDoneLocalOnly(t) ==
  /\ t \in couponTasks /\ t.pc = "put"
  /\ srvCart' = t.cart
  /\ appliedCoupons' = t.newList
  /\ busyCoupon' = [busyCoupon EXCEPT ![t.code] = FALSE]
  /\ couponTasks' = couponTasks \ {t}
  /\ NoOutput
  /\ UNCHANGED <<cartItems, loading, userId, errorText, busyQty, busyRemove,
                 shippingMethods, selectedShippingMethod, shippingLines, taxRates,
                 taxCalculation, taxLoading, shippingLoading, paymentGateways,
                 selectedPaymentMethod, srvCoupons, load, tasks, calcVars, otherVars>>

\* updateCustomerById resolves: setAppliedCoupons(newList), the busy flag is cleared
CouponPersistDone(t) ==
  /\ t \in couponTasks /\ t.pc = "put"
  /\ srvCoupons' = t.newList
  /\ srvCart' = t.cart
  /\ appliedCoupons' = t.newList
  /\ busyCoupon' = [busyCoupon EXCEPT ![t.code] = FALSE]
  /\ couponTasks' = couponTasks \ {t}
  /\ NoOutput
  /\ UNCHANGED <<cartItems, loading, userId, errorText, busyQty, busyRemove,
                 shippingMethods, selectedShippingMethod, shippingLines, taxRates,
                 taxCalculation, taxLoading, shippingLoading, paymentGateways,
                 selectedPaymentMethod, load, tasks, calcVars, otherVars>>

\* getCustomerById or updateCustomerById rejects: removeCoupon has no catch, the rest
\* of it never runs
CouponFailed(t) ==
  /\ t \in couponTasks
  /\ couponTasks' = couponTasks \ {t}
  /\ NoOutput
  /\ UNCHANGED <<screenVars, serverVars, load, tasks, calcVars, otherVars>>

(* --------------------------- handleCheckout -------------------------- *)
\* handleCheckout without its `if (!selectedPaymentMethod)` return
HandleCheckoutUnguarded ==
  /\ CartShown
  /\ alerted' = FALSE
  /\ nav' = Some([paymentMethod |-> IF selectedPaymentMethod = Null THEN ""
                                    ELSE selectedPaymentMethod[1].method,
                  total |-> NumberToString(total)])
  /\ UNCHANGED <<screenVars, serverVars, load, tasks, couponTasks, used, calcVars, otherVars>>

\* the Proceed to Checkout button
HandleCheckout ==
  /\ CartShown
  /\ IF selectedPaymentMethod = Null
       THEN /\ alerted' = TRUE
            /\ nav' = Null
       ELSE /\ alerted' = FALSE
            /\ nav' = Some([paymentMethod |-> selectedPaymentMethod[1].method,
                            total |-> NumberToString(total)])
  /\ UNCHANGED <<screenVars, serverVars, load, tasks, couponTasks, used, calcVars, otherVars>>

Next ==
  \/ LoadStart
  \/ LoadNoSession
  \/ LoadSession
  \/ \E okRates, okMethods, okGateways \in BOOLEAN :
       LoadInputs(okRates, okMethods, okGateways)
  \/ LoadFinish
  \/ LoadFail
  \/ \E id \in ProductIds, qty \in 0..MaxQty : UpdateQuantity(id, qty)
  \/ \E id \in ProductIds, qty \in 0..MaxQty : UpdateQuantityBelowOne(id, qty)
  \/ \E id \in ProductIds : RemoveItem(id)
  \/ \E t \in tasks : PersistDone(t)
  \/ \E t \in tasks : PersistFailed(t)
  \/ \E i \in 1..Len(shippingMethods) : UpdateShippingMethod(shippingMethods[i])
  \/ \E code \in CouponCodes : RemoveCoupon(code)
  \/ \E t \in couponTasks : CouponCustomerRead(t)
  \/ \E t \in couponTasks : CouponPersistDone(t)
  \/ \E t \in couponTasks : CouponFailed(t)
  \/ HandleCheckout

Spec == Init /\ [][Next]_vars

(* ===================================================================== *)
(*     loadCart with its three fetches settling one at a time             *)
(* ===================================================================== *)
FetchSlots == {"rates", "methods", "gateways"}

\* what the fetch of a slot resolves to
FetchResult(slot, ok) ==
  CASE slot = "rates" -> loadTaxRates(ok)
    [] slot = "methods" -> loadShippingMethods(ok)
    [] slot = "gateways" -> loadPaymentGateways(ok)

\* a fetch that hands its result to the screen state as soon as it settles
FetchSettledFeeding(slot, ok) ==
  /\ load.pc = "fetch" /\ load[slot] = Null
  /\ load' = [load EXCEPT ![slot] = Some(FetchResult(slot, ok)),
                          !.failed = IF ok THEN @ ELSE @ \cup {slot}]
  /\ taxLoading' = IF slot = "rates" THEN FALSE ELSE taxLoading
  /\ shippingLoading' = IF slot = "methods" THEN FALSE ELSE shippingLoading
  /\ taxRates' = IF slot = "rates" THEN FetchResult(slot, ok) ELSE taxRates
  /\ shippingMethods' = IF slot = "methods" THEN FetchResult(slot, ok) ELSE shippingMethods
  /\ paymentGateways' = IF slot = "gateways" THEN FetchResult(slot, ok) ELSE paymentGateways
  /\ taxCalculation' = TaxEffect(cartItems, shippingLines, taxRates', taxCalculation)
  /\ selectedPaymentMethod' = PaymentEffect(cartItems, paymentGateways', selectedPaymentMethod)
  /\ NoOutput
  /\ UNCHANGED <<cartItems, loading, userId, errorText, busyQty, busyRemove,
                 appliedCoupons, busyCoupon, selectedShippingMethod, shippingLines,
                 serverVars, tasks, couponTasks, calcVars, otherVars>>

\* one of loadTaxRates, loadShippingMethods, loadPaymentGateways settles: its promise
\* holds the result, its finally block clears its loading flag
FetchSettled(slot, ok) ==
  /\ load.pc = "fetch" /\ load[slot] = Null
  /\ load' = [load EXCEPT ![slot] = Some(FetchResult(slot, ok)),
                          !.failed = IF ok THEN @ ELSE @ \cup {slot}]
  /\ taxLoading' = IF slot = "rates" THEN FALSE ELSE taxLoading
  /\ shippingLoading' = IF slot = "methods" THEN FALSE ELSE shippingLoading
  /\ NoOutput
  /\ UNCHANGED <<cartItems, loading, userId, errorText, busyQty, busyRemove,
                 appliedCoupons, busyCoupon, shippingMethods, selectedShippingMethod,
                 shippingLines, taxRates, taxCalculation, paymentGateways,
                 selectedPaymentMethod, serverVars, tasks, couponTasks, calcVars, otherVars>>

\* Promise.all resolves once the three have settled: setTaxRates, setShippingMethods,
\* setPaymentGateways, then `await getCustomerById`; the render in between runs both
\* effects
PromiseAll ==
  /\ load.pc = "fetch"
  /\ \A slot \in FetchSlots : load[slot] # Null
  /\ load' = [load EXCEPT !.pc = "customer"]
  /\ taxRates' = load.rates[1]
  /\ shippingMethods' = load.methods[1]
  /\ paymentGateways' = load.gateways[1]
  /\ taxCalculation' = TaxEffect(cartItems, shippingLines, taxRates', taxCalculation)
  /\ selectedPaymentMethod' = PaymentEffect(cartItems, paymentGateways', selectedPaymentMethod)
  /\ NoOutput
  /\ UNCHANGED <<cartItems, loading, userId, errorText, busyQty, busyRemove,
                 appliedCoupons, busyCoupon, selectedShippingMethod, shippingLines,
                 taxLoading, shippingLoading, serverVars, tasks, couponTasks, calcVars,
                 otherVars>>

NextLoad ==
  \/ LoadStart
  \/ LoadNoSession
  \/ LoadSession
  \/ \E slot \in FetchSlots, ok \in BOOLEAN : FetchSettled(slot, ok)
  \/ PromiseAll
  \/ LoadFinish
  \/ LoadFail

SpecLoad == Init /\ [][NextLoad]_vars

(* ===================================================================== *)
(*        The 'People also viewed' list (components/PeopleViews.tsx)      *)
(* ===================================================================== *)
MaxPvLoads == 2

\* the ids of the entries of a persisted cart
IdsOf(cart) == [i \in 1..Len(cart) |-> cart[i].id]

PvUnchanged == UNCHANGED <<screenVars, srvCoupons, load, tasks, couponTasks, nav, alerted,
                           used, calcVars, pwd, chat>>

\* the end of an addToCart call: the feedback it shows (if any), then its finally
\* block; a loadUserData run on its own just ends
PvEnd(p, t, msg, isAdded) ==
  IF t.kind = "load" THEN [p EXCEPT !.calls = @ \ {t}, !.nav = ""]
  ELSE [p EXCEPT !.calls = @ \ {t}, !.nav = "",
                 !.loadingCart[t.id] = FALSE,
                 !.feedbackMessage = IF msg = "" THEN @ ELSE msg,
                 !.added = IF isAdded THEN @ \cup {t.id} ELSE @]

\* the list is mounted or gains focus: loadUserData up to `await getSession()`
PvFocus ==
  /\ pv.loads < MaxPvLoads
  /\ pv' = [pv EXCEPT !.loads = @ + 1, !.nav = "",
                      !.calls = @ \cup {[kind |-> "load", id |-> "", pc |-> "session",
                                         cart |-> <<>>, n |-> pv.loads + 1]}]
  /\ srvCart' = srvCart
  /\ PvUnchanged

\* loadUserData: getSession() answers, with a user (then getCustomerById is awaited)
\* or without one
PvSession(t, hasUser) ==
  /\ t \in pv.calls /\ t.pc = "session"
  /\ pv' = IF hasUser
             THEN [pv EXCEPT !.userId = Some(UserId), !.nav = "",
                             !.calls = (@ \ {t}) \cup {[t EXCEPT !.pc = "customer"]}]
             ELSE PvEnd([pv EXCEPT !.userId = Null, !.cartIds = <<>>], t,
                        "Item added to cart", TRUE)
  /\ srvCart' = srvCart
  /\ PvUnchanged

\* loadUserData: getCustomerById answers, setCartIds
PvCustomer(t) ==
  /\ t \in pv.calls /\ t.pc = "customer"
  /\ pv' = PvEnd([pv EXCEPT !.cartIds = IdsOf(srvCart)], t, "Item added to cart", TRUE)
  /\ srvCart' = srvCart
  /\ PvUnchanged

\* Add to Cart is pressed on a card (disabled when the product is in cartIds or its
\* call is in flight): addToCart up to `await getCustomerById`
PvAddToCart(id) ==
  /\ ~pv.loadingCart[id]
  /\ \A i \in 1..Len(pv.cartIds) : pv.cartIds[i] # id
  /\ pv' = IF pv.userId = Null
             THEN [pv EXCEPT !.nav = "/Login/LoginRegisterPage"]
             ELSE [pv EXCEPT !.nav = "", !.loadingCart[id] = TRUE,
                             !.calls = @ \cup {[kind |-> "add", id |-> id, pc |-> "get",
                                                cart |-> <<>>, n |-> 0]}]
  /\ pv' # pv
  /\ srvCart' = srvCart
  /\ PvUnchanged

\* addToCart: getCustomerById answers; the entry is looked for and, if missing, pushed
\* and updateCustomerById is sent
PvAddRead(t) ==
  /\ t \in pv.calls /\ t.kind = "add" /\ t.pc = "get"
  /\ pv' = IF \E i \in 1..Len(srvCart) : srvCart[i].id = t.id
             THEN PvEnd(pv, t, "", FALSE)
             ELSE [pv EXCEPT !.nav = "",
                             !.calls = (@ \ {t}) \cup
                               {[t EXCEPT !.pc = "put",
                                          !.cart = Append(srvCart,
                                                          [id |-> t.id, quantity |-> 1])]}]
  /\ srvCart' = srvCart
  /\ PvUnchanged

\* addToCart: updateCustomerById answers; `await loadUserData()` starts
PvAddWrite(t) ==
  /\ t \in pv.calls /\ t.kind = "add" /\ t.pc = "put"
  /\ srvCart' = t.cart
  /\ pv' = [pv EXCEPT !.nav = "",
                      !.calls = (@ \ {t}) \cup {[t EXCEPT !.pc = "session"]}]
  /\ PvUnchanged

\* a remote call rejects: addToCart's catch and finally; a loadUserData run on its
\* own ends there
PvFailed(t) ==
  /\ t \in pv.calls
  /\ pv' = PvEnd(pv, t, "Failed to update cart", FALSE)
  /\ srvCart' = srvCart
  /\ PvUnchanged

\* the timer of showFeedback fires
PvFeedbackTimeout ==
  /\ pv.feedbackMessage # ""
  /\ pv' = [pv EXCEPT !.feedbackMessage = "", !.nav = ""]
  /\ srvCart' = srvCart
  /\ PvUnchanged

NextPeople ==
  \/ PvFocus
  \/ \E t \in pv.calls, hasUser \in BOOLEAN : PvSession(t, hasUser)
  \/ \E t \in pv.calls : PvCustomer(t)
  \/ \E id \in PvProducts : PvAddToCart(id)
  \/ \E t \in pv.calls : PvAddRead(t)
  \/ \E t \in pv.calls : PvAddWrite(t)
  \/ \E t \in pv.calls : PvFailed(t)
  \/ PvFeedbackTimeout

SpecPeople == Init /\ [][NextPeople]_vars

(* ===================================================================== *)
(*                           The chat screen                              *)
(* ===================================================================== *)
MaxChatOps == 5

\* the texts typed into the message box and the edit box
ChatTexts == { <<>>, <<" ">>, <<"o", "k">>, <<" ", "o", "k", " ">> }

\* String.prototype.trim
RECURSIVE Trim(_)
Trim(s) ==
  IF s = <<>> THEN s
  ELSE IF Head(s) = " " THEN Trim(Tail(s))
  ELSE IF s[Len(s)] = " " THEN Trim(SubSeq(s, 1, Len(s) - 1))
  ELSE s

\* parseInt(s, 10): the value of the leading digits, Null for NaN
ParseInt(s) ==
  LET ip == IntPrefix(s, 1, 0) IN IF ip[2] = 1 THEN Null ELSE Some(ip[1])

\* one fetched message as fetchMessages maps it (the display time is left out)
MapMessage(m, uid) ==
  LET user == ParseInt(m.user_id)
  IN  [id |-> DigitsOf(m.id), text |-> m.message,
       sender |-> IF user = uid THEN "customer" ELSE "admin",
       user_id |-> user, created_at |-> m.created_at,
       is_read |-> m.is_read \in {"1", "true"}]

\* Array.prototype.sort by created_at ascending (stable)
RECURSIVE InsertByCreated(_, _)
InsertByCreated(sorted, m) ==
  IF sorted = <<>> THEN <<m>>
  ELSE IF sorted[Len(sorted)].created_at <= m.created_at THEN Append(sorted, m)
  ELSE Append(InsertByCreated(SubSeq(sorted, 1, Len(sorted) - 1), m), sorted[Len(sorted)])

RECURSIVE SortByCreated(_)
SortByCreated(s) ==
  IF s = <<>> THEN <<>>
  ELSE InsertByCreated(SortByCreated(SubSeq(s, 1, Len(s) - 1)), s[Len(s)])

\* processedData.map(...).sort(...)
MappedMessages(data, uid) ==
  SortByCreated([i \in 1..Len(data) |-> MapMessage(data[i], uid)])

ChatUnchanged == UNCHANGED <<cartVars, pwd, pv>>

\* a control of the chat screen is pressed
ChatPress(c) == [c EXCEPT !.ops = @ + 1]

\* the chat of a product is shown, with no modal over it
ChatShown ==
  /\ chat.selectedProduct # Null
  /\ ~chat.editModalVisible /\ ~chat.deleteModalVisible

\* initUser: getSession() answers; with a user fetchProductsWithChats starts
ChatInitUser(hasUser) ==
  /\ chat.pc = "mount"
  /\ chat' = IF hasUser
               THEN [chat EXCEPT !.pc = "products", !.userId = Some(UserId),
                                 !.loadingProducts = TRUE]
               ELSE [chat EXCEPT !.pc = "ready"]
  /\ ChatUnchanged

\* fetchProductsWithChats: the products that have messages, or its catch
ChatProductsLoaded(ok) ==
  /\ chat.pc = "products"
  /\ chat' = [chat EXCEPT !.pc = "ready", !.loadingProducts = FALSE,
                          !.products = IF ok
                                         THEN SelectSeq(<<1, 2>>, LAMBDA p : Len(chat.srv[p]) > 0)
                                         ELSE @]
  /\ ChatUnchanged

\* a product of the list is pressed: selectProduct up to the fetch of fetchMessages
ChatSelectProduct(p) ==
  /\ chat.selectedProduct = Null /\ ~chat.loadingProducts /\ chat.userId # Null
  /\ Includes(chat.products, p)
  /\ chat.ops < MaxChatOps
  /\ chat' = [ChatPress(chat) EXCEPT
                !.selectedProduct = Some(p), !.messages = <<>>,
                !.loadingMessages = TRUE, !.clock = @ + 1,
                !.calls = @ \cup {[kind |-> "fetch", product |-> p, id |-> <<>>,
                                    text |-> <<>>, n |-> chat.clock + 1]}]
  /\ ChatUnchanged

\* fetchMessages: the fetch answers (setMessages(mapped)) or fails; finally
ChatFetchDone(t, ok) ==
  /\ t \in chat.calls /\ t.kind = "fetch"
  /\ chat' = [chat EXCEPT
                !.calls = @ \ {t}, !.loadingMessages = FALSE,
                !.messages = IF ok THEN MappedMessages(chat.srv[t.product], chat.userId)
                             ELSE @]
  /\ ChatUnchanged

\* the back arrow of a chat
ChatBack ==
  /\ ChatShown
  /\ chat.ops < MaxChatOps
  /\ chat' = [ChatPress(chat) EXCEPT !.selectedProduct = Null]
  /\ ChatUnchanged

\* text is typed into the message box
ChatTypeInput(text) ==
  /\ ChatShown /\ text # chat.inputMsg
  /\ chat.ops < MaxChatOps
  /\ chat' = [ChatPress(chat) EXCEPT !.inputMsg = text]
  /\ ChatUnchanged

\* Send is pressed (disabled while the box is blank): sendMessage up to its fetch
ChatSendMessage ==
  /\ ChatShown /\ Trim(chat.inputMsg) # <<>> /\ chat.userId # Null
  /\ chat.ops < MaxChatOps
  /\ chat' = [ChatPress(chat) EXCEPT
                !.clock = @ + 1,
                !.calls = @ \cup {[kind |-> "send", product |-> chat.selectedProduct[1],
                                    id |-> <<>>, text |-> chat.inputMsg,
                                    n |-> chat.clock + 1]}]
  /\ ChatUnchanged

\* the send answers OK: the message is on the server, the temporary message is
\* appended, the box is emptied and the refetch timer is set; or it fails: alert
ChatSendDone(t, ok) ==
  /\ t \in chat.calls /\ t.kind = "send"
  /\ chat' =
       IF ok
         THEN [chat EXCEPT
                !.srv[t.product] =
                  Append(@, [id |-> t.product * 100 + 10 + t.n, message |-> t.text,
                             user_id |-> DigitsOf(UserId), created_at |-> 10 + chat.clock,
                             is_read |-> "0"]),
                !.messages =
                  Append(@, [id |-> <<"t", "e", "m", "p", "-">> \o DigitsOf(chat.clock + 1),
                             text |-> t.text, sender |-> "customer",
                             user_id |-> chat.userId, created_at |-> 10 + chat.clock,
                             is_read |-> FALSE]),
                !.inputMsg = <<>>,
                !.clock = @ + 1,
                !.calls = (@ \ {t}) \cup {[kind |-> "timer", product |-> t.product,
                                            id |-> <<>>, text |-> <<>>,
                                            n |-> chat.clock + 1]}]
         ELSE [chat EXCEPT !.calls = @ \ {t}, !.alert = "Failed to send message"]
  /\ ChatUnchanged

\* the 500 ms timer of sendMessage fires: fetchMessages(selectedProduct.id) with the
\* selectedProduct of the render sendMessage ran in
ChatRefetch(t) ==
  /\ t \in chat.calls /\ t.kind = "timer"
  /\ chat' = [chat EXCEPT
                !.loadingMessages = TRUE,
                !.calls = (@ \ {t}) \cup {[t EXCEPT !.kind = "fetch"]}]
  /\ ChatUnchanged

\* the message list of the chat is on screen
ChatListShown == ChatShown /\ ~chat.loadingMessages

\* what the product-chat server can answer to a delete or an edit
ChatOutcomes == {"success", "refused", "notok", "error"}

\* the server holds the message of that local id as one of the customer's
OnServer(id) ==
  /\ ParseInt(id) # Null
  /\ \E p \in ChatProducts : \E i \in 1..Len(chat.srv[p]) :
       chat.srv[p][i].id = ParseInt(id)[1] /\ ParseInt(chat.srv[p][i].user_id) = chat.userId

\* a long press on one of the user's own messages, then Edit in the options alert
ChatLongPressEdit(i) ==
  /\ ChatListShown /\ i \in 1..Len(chat.messages)
  /\ chat.messages[i].user_id = chat.userId
  /\ chat.ops < MaxChatOps
  /\ chat' = [ChatPress(chat) EXCEPT
                !.longPressedMessage = Some(chat.messages[i]),
                !.selectedMessageId = Some(chat.messages[i].id),
                !.editText = chat.messages[i].text,
                !.editModalVisible = TRUE]
  /\ ChatUnchanged

\* a long press on one of the user's own messages, then Delete in the options alert
ChatLongPressDelete(i) ==
  /\ ChatListShown /\ i \in 1..Len(chat.messages)
  /\ chat.messages[i].user_id = chat.userId
  /\ chat.ops < MaxChatOps
  /\ chat' = [ChatPress(chat) EXCEPT
                !.longPressedMessage = Some(chat.messages[i]),
                !.selectedMessageId = Some(chat.messages[i].id),
                !.deleteModalVisible = TRUE]
  /\ ChatUnchanged

\* a long press on one of the user's own messages, then Cancel
ChatLongPressCancel(i) ==
  /\ ChatListShown /\ i \in 1..Len(chat.messages)
  /\ chat.messages[i].user_id = chat.userId
  /\ chat.ops < MaxChatOps
  /\ chat' = [ChatPress(chat) EXCEPT !.longPressedMessage = Some(chat.messages[i])]
  /\ ChatUnchanged

\* text is typed into the edit modal
ChatEditType(text) ==
  /\ chat.editModalVisible /\ text # chat.editText
  /\ chat.ops < MaxChatOps
  /\ chat' = [ChatPress(chat) EXCEPT !.editText = text]
  /\ ChatUnchanged

\* Cancel of the edit modal
ChatEditCancel ==
  /\ chat.editModalVisible
  /\ chat.ops < MaxChatOps
  /\ chat' = [ChatPress(chat) EXCEPT !.editModalVisible = FALSE, !.editText = <<>>,
                                      !.selectedMessageId = Null]
  /\ ChatUnchanged

\* onRequestClose of a modal (the hardware back button)
ChatRequestClose(modal) ==
  /\ chat[modal]
  /\ chat.ops < MaxChatOps
  /\ chat' = [ChatPress(chat) EXCEPT ![modal] = FALSE]
  /\ ChatUnchanged

\* Save of the edit modal (disabled while the text is blank): editMessage up to its
\* fetch
ChatEditMessage ==
  /\ chat.editModalVisible /\ Trim(chat.editText) # <<>>
  /\ chat.selectedMessageId # Null /\ chat.userId # Null
  /\ chat.ops < MaxChatOps
  /\ chat' = [ChatPress(chat) EXCEPT
                !.clock = @ + 1,
                !.calls = @ \cup {[kind |-> "edit", product |-> 0,
                                    id |-> chat.selectedMessageId[1],
                                    text |-> chat.editText, n |-> chat.clock + 1]}]
  /\ ChatUnchanged

\* editMessage: the server answers (OK with success, OK without, not OK) or the
\* fetch fails; then finally
ChatEditDone(t, outcome) ==
  /\ t \in chat.calls /\ t.kind = "edit"
  /\ outcome = "success" => OnServer(t.id)
  /\ chat' = [chat EXCEPT
                !.calls = @ \ {t},
                !.srv = IF outcome = "success"
                          THEN [p \in ChatProducts |->
                                  [i \in 1..Len(@[p]) |->
                                     IF @[p][i].id = ParseInt(t.id)[1]
                                       THEN [@[p][i] EXCEPT !.message = Trim(t.text)]
                                       ELSE @[p][i]]]
                          ELSE @,
                !.messages = IF outcome = "success"
                               THEN [i \in 1..Len(@) |->
                                       IF @[i].id = t.id
                                         THEN [@[i] EXCEPT !.text = Trim(t.text)]
                                         ELSE @[i]]
                               ELSE @,
                !.alert = IF outcome = "success" THEN "Message updated successfully"
                          ELSE "Failed to edit message",
                !.editModalVisible = FALSE, !.selectedMessageId = Null,
                !.editText = <<>>, !.longPressedMessage = Null]
  /\ ChatUnchanged

\* Cancel of the delete modal
ChatDeleteCancel ==
  /\ chat.deleteModalVisible
  /\ chat.ops < MaxChatOps
  /\ chat' = [ChatPress(chat) EXCEPT !.deleteModalVisible = FALSE,
                                      !.selectedMessageId = Null]
  /\ ChatUnchanged

\* Delete of the delete modal: deleteMessage(selectedMessageId) up to its fetch
ChatDeleteMessage ==
  /\ chat.deleteModalVisible
  /\ chat.selectedMessageId # Null /\ chat.userId # Null
  /\ chat.ops < MaxChatOps
  /\ chat' = [ChatPress(chat) EXCEPT
                !.clock = @ + 1,
                !.calls = @ \cup {[kind |-> "delete", product |-> 0,
                                    id |-> chat.selectedMessageId[1],
                                    text |-> <<>>, n |-> chat.clock + 1]}]
  /\ ChatUnchanged

\* deleteMessage removing the message whatever the server answered
ChatDeleteDoneOptimistic(t, outcome) ==
  /\ t \in chat.calls /\ t.kind = "delete"
  /\ outcome = "success" => OnServer(t.id)
  /\ chat' = [chat EXCEPT
                !.calls = @ \ {t},
                !.srv = IF outcome = "success"
                          THEN [p \in ChatProducts |->
                                  SelectSeq(@[p], LAMBDA m : m.id # ParseInt(t.id)[1])]
                          ELSE @,
                !.messages = SelectSeq(@, LAMBDA m : m.id # t.id),
                !.alert = IF outcome = "success" THEN "Message deleted successfully"
                          ELSE "Failed to delete message",
                !.deleteModalVisible = FALSE, !.selectedMessageId = Null,
                !.longPressedMessage = Null]
  /\ ChatUnchanged

\* deleteMessage: the server answers (OK with success, OK without, not OK) or the
\* fetch fails; then finally
ChatDeleteDone(t, outcome) ==
  /\ t \in chat.calls /\ t.kind = "delete"
  /\ outcome = "success" => OnServer(t.id)
  /\ chat' = [chat EXCEPT
                !.calls = @ \ {t},
                !.srv = IF outcome = "success"
                          THEN [p \in ChatProducts |->
                                  SelectSeq(@[p], LAMBDA m : m.id # ParseInt(t.id)[1])]
                          ELSE @,
                !.messages = IF outcome = "success"
                               THEN SelectSeq(@, LAMBDA m : m.id # t.id)
                               ELSE @,
                !.alert = IF outcome = "success" THEN "Message deleted successfully"
                          ELSE "Failed to delete message",
                !.deleteModalVisible = FALSE, !.selectedMessageId = Null,
                !.longPressedMessage = Null]
  /\ ChatUnchanged

NextChat ==
  \/ \E hasUser \in BOOLEAN : ChatInitUser(hasUser)
  \/ \E ok \in BOOLEAN : ChatProductsLoaded(ok)
  \/ \E p \in ChatProducts : ChatSelectProduct(p)
  \/ \E t \in chat.calls, ok \in BOOLEAN : ChatFetchDone(t, ok)
  \/ ChatBack
  \/ \E text \in ChatTexts : ChatTypeInput(text)
  \/ ChatSendMessage
  \/ \E t \in chat.calls, ok \in BOOLEAN : ChatSendDone(t, ok)
  \/ \E t \in chat.calls : ChatRefetch(t)
  \/ \E i \in 1..Len(chat.messages) : ChatLongPressEdit(i)
  \/ \E i \in 1..Len(chat.messages) : ChatLongPressDelete(i)
  \/ \E i \in 1..Len(chat.messages) : ChatLongPressCancel(i)
  \/ \E text \in ChatTexts : ChatEditType(text)
  \/ ChatEditCancel
  \/ \E modal \in {"editModalVisible", "deleteModalVisible"} : ChatRequestClose(modal)
  \/ ChatEditMessage
  \/ \E t \in chat.calls, outcome \in ChatOutcomes : ChatEditDone(t, outcome)
  \/ ChatDeleteCancel
  \/ ChatDeleteMessage
  \/ \E t \in chat.calls, outcome \in ChatOutcomes : ChatDeleteDone(t, outcome)

SpecChat == Init /\ [][NextChat]_vars

(* ===================================================================== *)
(*          The change-password screen (Profile/ChangePassword.tsx)       *)
(* ===================================================================== *)
\* the texts typed into a field
PwdTexts ==
  { <<>>, <<"a", "b", "c", "d", "e">>, <<"s", "e", "c", "r", "e", "t">>,
    <<"h", "u", "n", "t", "e", "r", "2">> }

\* what a step that sends, alerts or navigates nothing leaves of the last step's
Quiet(p) == [p EXCEPT !.sent = Null, !.alert = "", !.nav = ""]

\* validate() without its minimum-length check
ValidateAnyLength ==
  IF pwd.currentPwd = <<>> \/ pwd.newPwd = <<>> \/ pwd.confirmPwd = <<>>
    THEN "All fields are required."
  ELSE IF pwd.newPwd # pwd.confirmPwd
    THEN "New password and confirmation do not match."
  ELSE IF pwd.newPwd = pwd.currentPwd
    THEN "New password must be different from current password."
  ELSE ""

\* validate(): the message it alerts, "" when it returns true
validate ==
  IF pwd.currentPwd = <<>> \/ pwd.newPwd = <<>> \/ pwd.confirmPwd = <<>>
    THEN "All fields are required."
  ELSE IF Len(pwd.newPwd) < 6
    THEN "New password must be at least 6 characters."
  ELSE IF pwd.newPwd # pwd.confirmPwd
    THEN "New password and confirmation do not match."
  ELSE IF pwd.newPwd = pwd.currentPwd
    THEN "New password must be different from current password."
  ELSE ""

\* text is typed into a field (the inputs are editable while not submitting)
PwdType(field, text) ==
  /\ ~pwd.submitting
  /\ pwd' = [Quiet(pwd) EXCEPT ![field] = text]
  /\ pwd' # pwd
  /\ UNCHANGED <<cartVars, pv, chat>>

\* Save Changes is pressed (disabled while submitting): handleSubmit up to
\* `await getSession()`, or to its return when validate() fails
HandleSubmit ==
  /\ ~pwd.submitting
  /\ pwd' = IF validate # ""
              THEN [Quiet(pwd) EXCEPT !.alert = validate]
              ELSE [Quiet(pwd) EXCEPT !.submitting = TRUE, !.pc = "session",
                                      !.sending = pwd.newPwd]
  /\ UNCHANGED <<cartVars, pv, chat>>

\* getSession() answers with no user: alert, the login page, then finally
SubmitNoSession ==
  /\ pwd.pc = "session"
  /\ pwd' = [Quiet(pwd) EXCEPT !.alert = "User session not found. Please log in again.",
                               !.nav = "/Login/LoginRegisterPage",
                               !.submitting = FALSE, !.pc = "idle", !.sending = <<>>]
  /\ UNCHANGED <<cartVars, pv, chat>>

\* getSession() answers with the user: updateCustomerById(id, { password: newPwd })
\* is sent
SubmitSend ==
  /\ pwd.pc = "session"
  /\ pwd' = [Quiet(pwd) EXCEPT !.pc = "update",
                               !.sent = Some([id |-> UserId, password |-> pwd.sending])]
  /\ UNCHANGED <<cartVars, pv, chat>>

\* the update answers with the customer: the success alert, router.back(), finally
SubmitDone ==
  /\ pwd.pc = "update"
  /\ pwd' = [Quiet(pwd) EXCEPT !.alert = "Password changed successfully.", !.nav = "back",
                               !.submitting = FALSE, !.pc = "idle", !.sending = <<>>]
  /\ UNCHANGED <<cartVars, pv, chat>>

\* getSession or the update rejects, or the update answers without an id: catch, finally
SubmitFailed ==
  /\ pwd.pc \in {"session", "update"}
  /\ pwd' = [Quiet(pwd) EXCEPT !.alert = "Failed to change password. Please try again.",
                               !.submitting = FALSE, !.pc = "idle", !.sending = <<>>]
  /\ UNCHANGED <<cartVars, pv, chat>>

NextPwd ==
  \/ \E field \in {"currentPwd", "newPwd", "confirmPwd"}, text \in PwdTexts :
       PwdType(field, text)
  \/ HandleSubmit
  \/ SubmitNoSession
  \/ SubmitSend
  \/ SubmitDone
  \/ SubmitFailed

SpecPwd == Init /\ [][NextPwd]_vars

(* ===================================================================== *)
(*        The calculators on their own: inputs drawn from bounded sets    *)
(* ===================================================================== *)
\* longest cart, tax-rate list, gateway list and coupon list a calculator is given
MaxItems == 2
MaxRates == 2
MaxGateways == 2
MaxCoupons == 2

SeqsUpTo(S, n) == UNION {[1..k -> S] : k \in 0..n}

\* the permutations of 1..n
Perms(n) == {f \in [1..n -> 1..n] : \A i, j \in 1..n : f[i] = f[j] => i = j}
Permuted(s, f) == [i \in 1..Len(s) |-> s[f[i]]]

Item(id, price, quantity, taxClass, defined, methods) ==
  [id |-> id, price |-> price, quantity |-> quantity, tax_class |-> taxClass,
   payment_methods |-> methods, pm_defined |-> defined]

(* ---------------------- calculateTaxes, GST -------------------------- *)
TaxItems ==
  { Item("a", 500 * One, 2, "", TRUE, <<"cod">>),
    Item("b", 99 * One, 1, "reduced-rate", TRUE, <<"cod">>),
    Item("c", 100 * One, 1, "standard", TRUE, <<"cod">>) }

TaxRates ==
  { [id |-> 1, rate |-> <<"1", "8">>, shipping |-> TRUE, class |-> ""],
    [id |-> 2, rate |-> <<"5", ".", "0", "0">>, shipping |-> FALSE, class |-> "reduced-rate"],
    [id |-> 3, rate |-> <<"1", "2">>, shipping |-> TRUE, class |-> "standard"],
    [id |-> 4, rate |-> <<"5">>, shipping |-> TRUE, class |-> "zero-rate"] }

ShippingTotals == {0, 100 * One}

TaxInputs ==
  [fn : {"tax"}, items : SeqsUpTo(TaxItems, MaxItems), shippingTotal : ShippingTotals,
   rates : SeqsUpTo(TaxRates, MaxRates)]

InitTax == ScreenInit /\ calcIn \in TaxInputs /\ calcOut = NoCalc

\* calculateTaxes on the input; the result is what setTaxCalculation would hold
CalcTaxes ==
  /\ calcIn.fn = "tax" /\ calcOut.fn = "none"
  /\ calcOut' = [fn |-> "tax",
                 tax |-> Some(calculateTaxes(calcIn.items, Subtotal(calcIn.items),
                                             calcIn.shippingTotal, calcIn.rates))]
  /\ UNCHANGED <<screenVars, serverVars, load, tasks, couponTasks, nav, alerted, used, calcIn, otherVars>>

\* calculateTaxes on the input and on a reordering of its items and of its rates
CalcTaxesPermuted(f, g) ==
  /\ calcIn.fn = "tax" /\ calcOut.fn = "none"
  /\ LET items == Permuted(calcIn.items, f)
         rates == Permuted(calcIn.rates, g)
     IN  calcOut' = [fn |-> "perm",
                     tax |-> calculateTaxes(calcIn.items, Subtotal(calcIn.items),
                                            calcIn.shippingTotal, calcIn.rates),
                     items |-> items, rates |-> rates,
                     permTax |-> calculateTaxes(items, Subtotal(items),
                                                calcIn.shippingTotal, rates)]
  /\ UNCHANGED <<screenVars, serverVars, load, tasks, couponTasks, nav, alerted, used, calcIn, otherVars>>

\* calculateGSTBreakdown on the tax calculation just computed
CalcGST ==
  /\ calcOut.fn = "tax"
  /\ calcOut' = [fn |-> "gst", tax |-> calcOut.tax, gst |-> calculateGSTBreakdown(calcOut.tax)]
  /\ UNCHANGED <<screenVars, serverVars, load, tasks, couponTasks, nav, alerted, used, calcIn, otherVars>>

\* calculateGSTBreakdown(null): the screen before any tax calculation
CalcGSTNull ==
  /\ calcIn.fn = "tax" /\ calcOut.fn = "none"
  /\ calcOut' = [fn |-> "gst", tax |-> Null, gst |-> calculateGSTBreakdown(Null)]
  /\ UNCHANGED <<screenVars, serverVars, load, tasks, couponTasks, nav, alerted, used, calcIn, otherVars>>

NextTax ==
  \/ CalcTaxes
  \/ \E f \in Perms(Len(calcIn.items)), g \in Perms(Len(calcIn.rates)) :
       CalcTaxesPermuted(f, g)
  \/ CalcGST
  \/ CalcGSTNull

SpecTax == InitTax /\ [][NextTax]_vars

(* ----------------------- determinePaymentMethod ---------------------- *)
PayItems ==
  { Item("a", One, 1, "", FALSE, <<>>),
    Item("b", One, 1, "", TRUE, <<>>),
    Item("c", One, 1, "", TRUE, <<"cod">>),
    Item("d", One, 1, "", TRUE, <<"razorpay">>),
    Item("e", One, 1, "", TRUE, <<"razorpay", "cod">>) }

PayGateways ==
  [id : {"cod", "razorpay", "paypal"}, enabled : BOOLEAN, title : {"t"}]

PayInputs ==
  [fn : {"pay"}, items : SeqsUpTo(PayItems, MaxItems),
   gateways : SeqsUpTo(PayGateways, MaxGateways)]

InitPay == ScreenInit /\ calcIn \in PayInputs /\ calcOut = NoCalc

CalcPayment ==
  /\ calcIn.fn = "pay" /\ calcOut.fn = "none"
  /\ calcOut' = [fn |-> "pay",
                 selected |-> determinePaymentMethod(calcIn.items, calcIn.gateways)]
  /\ UNCHANGED <<screenVars, serverVars, load, tasks, couponTasks, nav, alerted, used, calcIn, otherVars>>

NextPay == CalcPayment

SpecPay == InitPay /\ [][NextPay]_vars

(* ------------------------- calcCouponDiscount ------------------------ *)
CouponSet ==
  { [code |-> "p10", amount |-> <<"1", "0">>, discount_type |-> "percent"],
    [code |-> "p50", amount |-> <<"5", "0", ".", "0", "0">>, discount_type |-> "percent"],
    [code |-> "f5", amount |-> <<"5", ".", "0", "0">>, discount_type |-> "fixed_cart"],
    [code |-> "f150", amount |-> <<"1", "5", "0">>, discount_type |-> "fixed_cart"],
    [code |-> "x20", amount |-> <<"2", "0">>, discount_type |-> "fixed_product"] }

CouponSubtotals == {0, 99 * One, 1000 * One}

CouponInputs ==
  [fn : {"coupon"}, subtotal : CouponSubtotals, coupons : SeqsUpTo(CouponSet, MaxCoupons)]

InitCoupon == ScreenInit /\ calcIn \in CouponInputs /\ calcOut = NoCalc

CalcCoupon ==
  /\ calcIn.fn = "coupon" /\ calcOut.fn = "none"
  /\ calcOut' = [fn |-> "coupon",
                 discount |-> calcCouponDiscount(calcIn.subtotal, calcIn.coupons)]
  /\ UNCHANGED <<screenVars, serverVars, load, tasks, couponTasks, nav, alerted, used, calcIn, otherVars>>

NextCoupon == CalcCoupon

SpecCoupon == InitCoupon /\ [][NextCoupon]_vars

(* ------------- calculateShippingCost, shipping lines, subtotal ------- *)
ShipItems ==
  { Item("a", 100 * One, 1, "", TRUE, <<"cod">>),
    Item("b", 50 * One, 2, "", TRUE, <<"cod">>),
    Item("c", 20 * One, 3, "", TRUE, <<"cod">>) }

\* settings.cost.value of the methods tried
ShipExprs ==
  { <<NumTok(<<"5">>)>>,
    <<NumTok(<<"1", "0">>), OpTok("*"), QtyTok>>,
    <<NumTok(<<"0", ".", "1">>), OpTok("*"), CostTok>>,
    <<NumTok(<<"1", "0">>), OpTok("+"), NumTok(<<"2">>), OpTok("*"), QtyTok>>,
    <<QtyTok, OpTok("*"), QtyTok>>,
    <<NumTok(<<"1", "0">>), OpTok("*"), QtyTok, OpTok("+"), QtyTok>>,
    <<NumTok(<<"3">>), OpTok("+"), CostTok, OpTok("-"), CostTok>>,
    <<NumTok(<<"5">>), OpTok("*"), QtyTok, OpTok("+"), CostTok>>,
    <<NumTok(<<"1">>), OpTok("-"), QtyTok>>,
    <<NumTok(<<"8">>), OpTok("*"), QtyTok, OpTok("*")>>,
    <<OpTok("*"), CostTok>> }

ShipInputs ==
  [fn : {"ship"}, items : SeqsUpTo(ShipItems, MaxItems),
   method : [id : {1}, instance_id : {1}, enabled : BOOLEAN, method_id : {"flat_rate"},
             cost : ShipExprs]]

InitShip == ScreenInit /\ calcIn \in ShipInputs /\ calcOut = NoCalc

\* calculateShippingCost of the method, the shipping lines of selecting it, and the
\* shipping total of those lines
CalcShipping ==
  /\ calcIn.fn = "ship" /\ calcOut.fn = "none"
  /\ LET lines == calculateShippingLines(<<calcIn.method>>, calcIn.items)
     IN  calcOut' = [fn |-> "ship",
                     cost |-> calculateShippingCost(calcIn.method, calcIn.items),
                     lines |-> lines,
                     total |-> ShippingTotalOf(lines)]
  /\ UNCHANGED <<screenVars, serverVars, load, tasks, couponTasks, nav, alerted, used, calcIn, otherVars>>

\* the displayed subtotal of the cart and of a reordering of it, and the subtotal
\* updateTaxCalculation computes for the same items
CalcSubtotal(f) ==
  /\ calcIn.fn = "ship" /\ calcOut.fn = "none"
  /\ calcOut' = [fn |-> "subtotal",
                 shown |-> Subtotal(calcIn.items),
                 permuted |-> Permuted(calcIn.items, f),
                 shownPermuted |-> Subtotal(Permuted(calcIn.items, f)),
                 taxed |-> Subtotal(calcIn.items)]
  /\ UNCHANGED <<screenVars, serverVars, load, tasks, couponTasks, nav, alerted, used, calcIn, otherVars>>

NextShip ==
  \/ CalcShipping
  \/ \E f \in Perms(Len(calcIn.items)) : CalcSubtotal(f)

SpecShip == InitShip /\ [][NextShip]_vars

(* --------- selectDefaultFlatRateMethod alone and in the screen -------- *)
MaxMethods == 3

\* the methods of the lists tried
DefaultMethodSet ==
  { [id |-> 1, instance_id |-> 1, enabled |-> TRUE, method_id |-> "free_shipping",
     cost |-> <<NumTok(<<"0">>)>>],
    [id |-> 2, instance_id |-> 2, enabled |-> TRUE, method_id |-> "flat_rate",
     cost |-> <<NumTok(<<"5">>)>>],
    [id |-> 3, instance_id |-> 3, enabled |-> FALSE, method_id |-> "local_pickup",
     cost |-> <<NumTok(<<"5">>)>>],
    [id |-> 4, instance_id |-> 4, enabled |-> FALSE, method_id |-> "flat_rate",
     cost |-> <<NumTok(<<"7">>)>>] }

DefaultInputs == [fn : {"default"}, methods : SeqsUpTo(DefaultMethodSet, MaxMethods)]

\* either a method list for the function alone, or the screen as mounted
InitDefault == ScreenInit /\ calcIn \in DefaultInputs \cup {NoCalc} /\ calcOut = NoCalc

CalcDefault ==
  /\ calcIn.fn = "default" /\ calcOut.fn = "none"
  /\ calcOut' = [fn |-> "default",
                 result |-> selectDefaultFlatRateMethod(calcIn.methods, <<>>)]
  /\ UNCHANGED <<screenVars, serverVars, load, tasks, couponTasks, nav, alerted, used, calcIn, otherVars>>

NextDefault ==
  \/ CalcDefault
  \/ calcIn.fn = "none" /\ Next

SpecDefault == InitDefault /\ [][NextDefault]_vars

(* ===================================================================== *)
(*                              The claims                                *)
(* ===================================================================== *)
\* p percent of x, for the claims' own arithmetic
PercentOf(x, p) == ((x \div One) * p + ((x % One) * p) \div One) \div 100

(* C5: determinePaymentMethod follows the priority (a) every item lists 'cod' or
   has no or empty payment_methods, and a 'cod' gateway is enabled: cod; (b) otherwise
   an enabled 'razorpay' gateway: razorpay; (c) otherwise an enabled 'cod' gateway:
   cod; (d) otherwise nothing.  A disabled gateway is never selected. *)
C5_PaymentPriority ==
  calcOut.fn = "pay" =>
    LET items == calcIn.items
        gws == calcIn.gateways
        sel == calcOut.selected
        codOk(i) == \/ ~items[i].pm_defined
                    \/ items[i].payment_methods = <<>>
                    \/ \E k \in 1..Len(items[i].payment_methods) :
                         items[i].payment_methods[k] = "cod"
        allCod == \A i \in 1..Len(items) : codOk(i)
        enabled(id) == \E k \in 1..Len(gws) : gws[k].id = id /\ gws[k].enabled
        want == IF allCod /\ enabled("cod") THEN "cod"
                ELSE IF enabled("razorpay") THEN "razorpay"
                ELSE IF enabled("cod") THEN "cod"
                ELSE "nothing"
    IN  /\ (want = "nothing") <=> (sel = Null)
        /\ sel # Null =>
             /\ sel[1].method = want
             /\ sel[1].gateway.id = want
             /\ sel[1].gateway.enabled
             /\ \E k \in 1..Len(gws) : gws[k] = sel[1].gateway

\* C5's case: an item that does not take cod, an enabled razorpay gateway beside a
\* disabled one, and razorpay selected
C5_Witness ==
  /\ calcOut.fn = "pay"
  /\ \E i \in 1..Len(calcIn.items) : calcIn.items[i].payment_methods = <<"razorpay">>
  /\ \E k \in 1..Len(calcIn.gateways) :
       calcIn.gateways[k].id = "razorpay" /\ ~calcIn.gateways[k].enabled
  /\ \E k \in 1..Len(calcIn.gateways) :
       calcIn.gateways[k].id = "razorpay" /\ calcIn.gateways[k].enabled
  /\ calcOut.selected # Null /\ calcOut.selected[1].method = "razorpay"

(* C7: calculateTaxes emits exactly one tax line per pair (tax class present in the
   cart, rate whose class equals that class or, for 'standard', is empty), with
   item tax = class subtotal * rate / 100 and shipping tax = shipping total * rate
   / 100 when the rate applies to shipping and 0 otherwise; tax_total and
   shipping_tax_total are the sums over those lines.  One standard 18% shipping
   rate on subtotal 1000 and shipping 100 gives 180, 18 and 198. *)
C7_TaxLines ==
  calcOut.fn = "tax" =>
    LET items == calcIn.items
        rates == calcIn.rates
        st == calcIn.shippingTotal
        res == calcOut.tax[1]
        lines == res.tax_lines
        classOf(i) == IF items[i].tax_class = "" THEN "standard" ELSE items[i].tax_class
        classes == {classOf(i) : i \in 1..Len(items)}
        applies(c, k) == rates[k].class = c \/ (c = "standard" /\ rates[k].class = "")
        pairs == {p \in classes \X (1..Len(rates)) : applies(p[1], p[2])}
        classSub(c) ==
          SetSum({i \in 1..Len(items) : classOf(i) = c},
                 [i \in 1..Len(items) |-> items[i].price * items[i].quantity])
        itemTax == [p \in pairs |-> PercentOf(classSub(p[1]), toNum(rates[p[2]].rate))]
        shipTax == [p \in pairs |->
                      IF rates[p[2]].shipping
                        THEN PercentOf(st, toNum(rates[p[2]].rate)) ELSE 0]
        isLineOf(j, p) ==
          /\ lines[j].tax_class = p[1]
          /\ lines[j].rate_id = rates[p[2]].id
          /\ lines[j].tax_total = itemTax[p]
          /\ lines[j].shipping_tax_total = shipTax[p]
    IN  /\ Len(lines) = Cardinality(pairs)
        /\ \A j \in 1..Len(lines) : \E p \in pairs : isLineOf(j, p)
        /\ \A p \in pairs :
             Cardinality({j \in 1..Len(lines) : isLineOf(j, p)})
               = Cardinality({q \in pairs : q[1] = p[1] /\ rates[q[2]] = rates[p[2]]})
        /\ res.tax_total = SetSum(pairs, itemTax)
        /\ res.shipping_tax_total = SetSum(pairs, shipTax)
        /\ ( /\ Len(items) = 1 /\ items[1].price * items[1].quantity = 1000 * One
             /\ classOf(1) = "standard"
             /\ Len(rates) = 1 /\ rates[1].rate = <<"1", "8">> /\ rates[1].class = ""
             /\ rates[1].shipping /\ st = 100 * One )
           => /\ res.tax_total = 180 * One
              /\ res.shipping_tax_total = 18 * One
              /\ res.tax_total + res.shipping_tax_total = 198 * One

\* C7's case: two tax classes in the cart, one rate with and one without shipping
\* tax, shipping to tax, and a line for each pair
C7_Witness ==
  /\ calcOut.fn = "tax"
  /\ calcIn.shippingTotal > 0
  /\ \E i, j \in 1..Len(calcIn.items) :
       TaxClassOf(calcIn.items[i]) # TaxClassOf(calcIn.items[j])
  /\ Len(calcOut.tax[1].tax_lines) = 2
  /\ calcOut.tax[1].tax_lines[1].shipping_tax_total > 0
  /\ calcOut.tax[1].tax_lines[2].shipping_tax_total = 0
  /\ calcOut.tax[1].tax_lines[2].tax_total > 0

(* C8: calculateTaxes is order-independent: for every permutation of the cart items
   and of the tax-rate list, tax_total and shipping_tax_total are the same and the
   set of tax lines is the same. *)
C8_OrderIndependent ==
  calcOut.fn = "perm" =>
    /\ calcOut.permTax.tax_total = calcOut.tax.tax_total
    /\ calcOut.permTax.shipping_tax_total = calcOut.tax.shipping_tax_total
    /\ {calcOut.permTax.tax_lines[j] : j \in 1..Len(calcOut.permTax.tax_lines)}
         = {calcOut.tax.tax_lines[j] : j \in 1..Len(calcOut.tax.tax_lines)}
    /\ Len(calcOut.permTax.tax_lines) = Len(calcOut.tax.tax_lines)

\* C8's case: items of two classes and two rates, both reordered, and the tax lines
\* come out in another order
C8_Witness ==
  /\ calcOut.fn = "perm"
  /\ calcOut.items # calcIn.items
  /\ calcOut.rates # calcIn.rates
  /\ Len(calcOut.tax.tax_lines) >= 2
  /\ calcOut.permTax.tax_lines # calcOut.tax.tax_lines

(* C9: calculateGSTBreakdown returns cgst equal to sgst, igst equal to 0 and total
   equal to cgst + sgst + igst, all at 2 decimal places; for a null tax calculation
   all four are 0; for the 198 example it gives 99.00, 99.00, 0.00 and 198.00. *)
C9_GSTBreakdown ==
  calcOut.fn = "gst" =>
    LET g == calcOut.gst IN
    /\ g.cgst = g.sgst
    /\ g.igst = 0
    /\ g.total = g.cgst + g.sgst + g.igst
    /\ \A x \in {g.cgst, g.sgst, g.igst, g.total} : x % Cent = 0
    /\ calcOut.tax = Null => g.cgst = 0 /\ g.sgst = 0 /\ g.igst = 0 /\ g.total = 0
    /\ ( /\ calcOut.tax # Null
         /\ Len(calcOut.tax[1].tax_lines) = 1
         /\ calcOut.tax[1].tax_lines[1].tax_total = 180 * One
         /\ calcOut.tax[1].tax_lines[1].shipping_tax_total = 18 * One )
       => g.cgst = 99 * One /\ g.sgst = 99 * One /\ g.igst = 0 /\ g.total = 198 * One

(* C10: calcCouponDiscount is the sum over the applied coupons where a fixed_cart
   coupon of amount A contributes exactly A whatever the subtotal, a percent coupon
   of P contributes subtotal * P / 100 (on the undiscounted subtotal, independent
   of the other coupons), and a coupon of any other type contributes 0. *)
C10_CouponDiscount ==
  calcOut.fn = "coupon" =>
    LET cs == calcIn.coupons
        sub == calcIn.subtotal
        amount(c) == CASE c.amount = <<"1", "0">> -> 10 * One
                       [] c.amount = <<"5", "0", ".", "0", "0">> -> 50 * One
                       [] c.amount = <<"5", ".", "0", "0">> -> 5 * One
                       [] c.amount = <<"1", "5", "0">> -> 150 * One
                       [] c.amount = <<"2", "0">> -> 20 * One
        term == [i \in 1..Len(cs) |->
                   IF cs[i].discount_type = "fixed_cart" THEN amount(cs[i])
                   ELSE IF cs[i].discount_type = "percent"
                     THEN PercentOf(sub, amount(cs[i]))
                   ELSE 0]
    IN  calcOut.discount = SetSum(1..Len(cs), term)

\* C10's case: a fixed-cart coupon larger than the subtotal beside a percent coupon
C10_Witness ==
  /\ calcOut.fn = "coupon"
  /\ Len(calcIn.coupons) = 2
  /\ calcIn.coupons[1].discount_type = "percent"
  /\ calcIn.coupons[2].code = "f150"
  /\ calcIn.subtotal = 99 * One
  /\ calcOut.discount > calcIn.subtotal

\* no loadCart run, cart persist or coupon persist is in flight
Quiescent == load.pc = "idle" /\ tasks = {} /\ couponTasks = {}

(* C1: in every quiescent state of the cart screen (no load or remote persist in
   flight) in which the cart is shown, also after a failed cart persist, shippingLines equals the shipping
   lines computed from the selected shipping method over the current cart items,
   and taxCalculation equals calculateTaxes over the current cart items, those
   shipping lines and the current tax rates (null when there are no tax rates). *)
C1_QuiescentRecomputed ==
  (Quiescent /\ CartShown) =>
    LET lines == calculateShippingLines(selectedShippingMethod, cartItems)
    IN  /\ shippingLines = lines
        /\ taxCalculation =
             IF Len(taxRates) > 0
               THEN Some(calculateTaxes(cartItems, Subtotal(cartItems),
                                        ShippingTotalOf(lines), taxRates))
               ELSE Null

(* C2: in every state of the cart screen the total that is displayed and handed
   to checkout equals subtotal - couponDiscount + shippingTotal + totalTax, with
   subtotal the sum of price * quantity over the cart items, shippingTotal the sum
   of the shipping line totals and totalTax taxCalculation.tax_total +
   taxCalculation.shipping_tax_total (0 when taxCalculation is null). *)
C2_GrandTotal ==
  LET sub == SetSum(1..Len(cartItems),
                    [i \in 1..Len(cartItems) |-> cartItems[i].price * cartItems[i].quantity])
      disc == SetSum(1..Len(appliedCoupons),
                     [i \in 1..Len(appliedCoupons) |-> CouponTerm(sub, appliedCoupons[i])])
      ship == SetSum(1..Len(shippingLines),
                     [i \in 1..Len(shippingLines) |-> shippingLines[i].total * Cent])
      tax == IF taxCalculation = Null THEN 0
             ELSE taxCalculation[1].tax_total + taxCalculation[1].shipping_tax_total
  IN  /\ total = sub - disc + ship + tax
      /\ nav # Null => toNum(nav[1].total) = sub - disc + ship + tax

\* C2's case: checkout is entered with a coupon discount, a shipping charge and tax
\* all in the total
C2_Witness ==
  /\ nav # Null
  /\ couponDiscount > 0 /\ shippingTotal > 0 /\ itemTaxTotal > 0 /\ shippingTaxTotal > 0
  /\ toNum(nav[1].total) = total
  /\ total # subtotal

(* C3: for every loadCart run, the first or a reload: if the shipping-methods
   fetch failed then once loading finishes the shipping total is 0; if the
   tax-rates fetch failed the total tax is 0; if the payment-gateways fetch failed
   no payment method is selected; and none of these failures puts the screen in
   its error state. *)
C3_FetchFailuresDegrade ==
  [][LoadFinish =>
       /\ "methods" \in load.failed => shippingTotal' = 0
       /\ "rates" \in load.failed => totalTax' = 0
       /\ "gateways" \in load.failed => selectedPaymentMethod' = Null
       /\ errorText' = "" /\ ~loading']_vars

(* C4: when two cart mutations overlap, then for every order in which the two
   persists complete, once both have completed shippingLines and taxCalculation
   are the ones computed from the latest cart items, never from the older cart
   snapshot. *)
C4_OlderMutationDiscarded ==
  [][\A t \in tasks :
       \* t is the older of two overlapping mutations: the newer one's cart is on
       \* the screen and its persist has completed, no reload has intervened
       ( /\ PersistDone(t) /\ tasks = {t} /\ t.items # cartItems
         /\ srvCart = CartMeta(cartItems) /\ used.loads = 1 /\ load.pc = "idle" ) =>
         LET method == selectDefaultFlatRateMethod(shippingMethods, cartItems)
             lines == calculateShippingLines(method, cartItems)
         IN  /\ shippingLines' = lines
             /\ taxCalculation' = updateTaxCalculation(cartItems, lines, taxRates)]_vars

(* C6: handleCheckout never navigates to the checkout step while no payment method
   is selected: with selectedPaymentMethod null it only shows the blocking message
   and leaves all state unchanged; when it navigates, the paymentMethod passed is
   the selected method's id and the total passed is the current grand total. *)
C6_CheckoutBlocked ==
  [][/\ nav' # Null =>
          /\ selectedPaymentMethod # Null
          /\ nav'[1].paymentMethod = selectedPaymentMethod[1].gateway.id
          /\ toNum(nav'[1].total) = total
     /\ alerted' =>
          /\ selectedPaymentMethod = Null
          /\ nav' = Null
          /\ UNCHANGED <<screenVars, serverVars, load, tasks, couponTasks>>
     /\ (HandleCheckout /\ selectedPaymentMethod = Null) => alerted' /\ nav' = Null]_vars

\* C6's case: the button was pressed with no payment method selected and the
\* message was shown
C6_Witness == alerted /\ selectedPaymentMethod = Null /\ CartShown /\ nav = Null

(* ------------------------- shipping cost ----------------------------- *)
\* the cost expression f with every reference t replaced by the number v
ReplaceAll(f, t, v) == [i \in 1..Len(f) |-> IF f[i].t = t THEN ValTok(v) ELSE f[i]]

\* the cart's total quantity and cost, for the claims' own arithmetic
CartQuantity(items) ==
  SetSum(1..Len(items), [i \in 1..Len(items) |-> items[i].quantity])
CartCost(items) ==
  SetSum(1..Len(items), [i \in 1..Len(items) |-> items[i].price * items[i].quantity])

\* operand, then operator and operand any number of times
IsExpression(f) ==
  /\ Len(f) % 2 = 1
  /\ \A i \in 1..Len(f) :
       IF i % 2 = 1 THEN f[i].t \in {"num", "qty", "cost"} ELSE f[i].t = "op"

References(f, t) == Cardinality({i \in 1..Len(f) : f[i].t = t})

(* C11: calculateShippingCost evaluates the cost expression: if it references
   [qty] the cart's total quantity is substituted and the arithmetic expression
   evaluated; else if it references [cost] the sum of price * quantity is
   substituted and the expression evaluated; otherwise the expression is a
   literal fixed amount.  Every reference is substituted, repeated ones too. *)
C11_ShippingCostEvaluated ==
  calcOut.fn = "ship" =>
    LET f == calcIn.method.cost
        byQty == ReplaceAll(f, "qty", CartQuantity(calcIn.items) * One)
        byCost == ReplaceAll(f, "cost", CartCost(calcIn.items))
    IN  IF References(f, "qty") > 0
          THEN (IsExpression(f) /\ References(f, "cost") = 0) => calcOut.cost = Eval(byQty)
        ELSE IF References(f, "cost") > 0
          THEN IsExpression(f) => calcOut.cost = Eval(byCost)
        ELSE calcOut.cost = toNum(f[1].s)

(* C12: for every cost expression and every cart the shipping cost returned by
   calculateShippingCost, every shipping line total and the shipping total are
   non-negative. *)
C12_ShippingNonNegative ==
  calcOut.fn = "ship" =>
    /\ calcOut.cost >= 0
    /\ \A i \in 1..Len(calcOut.lines) : calcOut.lines[i].total >= 0
    /\ calcOut.total >= 0

\* evaluating the expression fails: after the first reference of the branch taken is
\* replaced, a reference is left or the text is no expression
EvaluationFails(f) ==
  \/ References(f, "qty") > 0
       /\ (References(f, "qty") > 1 \/ References(f, "cost") > 0 \/ ~IsExpression(f))
  \/ References(f, "qty") = 0 /\ References(f, "cost") > 0
       /\ (References(f, "cost") > 1 \/ ~IsExpression(f))

(* C13: when evaluating a shipping cost formula fails, calculateShippingCost
   returns the numeric interpretation of the raw cost expression (0 when it has no
   numeric prefix), and the shipping line and the shipping total are computed from
   that value. *)
C13_EvaluationFallback ==
  (calcOut.fn = "ship" /\ EvaluationFails(calcIn.method.cost)) =>
    LET f == calcIn.method.cost
        raw == IF f[1].t = "num" THEN parseFloat(f[1].s)[1] ELSE 0
    IN  /\ calcOut.cost = raw
        /\ (calcIn.method.enabled /\ Len(calcIn.items) > 0) =>
             /\ Len(calcOut.lines) = 1
             /\ calcOut.lines[1].total * Cent = raw
             /\ calcOut.total = raw

\* C13's case: '10 * [qty] + [qty]' keeps a reference after the substitution, the
\* cost is the leading 10 and the line and the total carry it
C13_Witness ==
  /\ calcOut.fn = "ship"
  /\ calcIn.method.cost = <<NumTok(<<"1", "0">>), OpTok("*"), QtyTok, OpTok("+"), QtyTok>>
  /\ Len(calcIn.items) = 2
  /\ calcOut.cost = 10 * One
  /\ Len(calcOut.lines) = 1 /\ calcOut.total = 10 * One

(* C16: for every cart the subtotal is the sum over the line items of
   price * quantity, it is the same for every reordering of the items, and the
   subtotal updateTaxCalculation computes is the displayed subtotal. *)
C16_Subtotal ==
  calcOut.fn = "subtotal" =>
    /\ calcOut.shown = CartCost(calcIn.items)
    /\ calcOut.shownPermuted = calcOut.shown
    /\ calcOut.taxed = calcOut.shown

\* C16's case: two different lines, one with a quantity above 1, reordered
C16_Witness ==
  /\ calcOut.fn = "subtotal"
  /\ Len(calcIn.items) = 2
  /\ calcOut.permuted # calcIn.items
  /\ calcOut.shown = 200 * One
  /\ \E i \in 1..2 : calcIn.items[i].quantity = 2

(* ------------------------- the cart screen --------------------------- *)
(* C14: in every reachable state of the cart screen every cart item has quantity
   >= 1: updateQuantity called with a quantity below 1 changes nothing and
   persists nothing, and items loaded from the persisted cart get a quantity >= 1
   whatever quantity value was persisted. *)
C14_QuantityAtLeastOne ==
  \A i \in 1..Len(cartItems) : cartItems[i].quantity >= 1

(* C15: in every reachable state (here: every state in which no load is running)
   at most one shipping method is selected and shippingLines holds at most one
   line; when a line exists it is the line of the selected method, and the
   selected method is an enabled method of the currently loaded shippingMethods
   list. *)
C15_OneShippingMethod ==
  (load.pc = "idle" /\ ~loading) =>
    /\ Len(selectedShippingMethod) <= 1
    /\ Len(shippingLines) <= 1
    /\ Len(shippingLines) = 1 =>
         /\ selectedShippingMethod # Null
         /\ shippingLines[1].id = selectedShippingMethod[1].id
         /\ shippingLines[1].method_id = selectedShippingMethod[1].method_id
    /\ selectedShippingMethod # Null =>
         /\ selectedShippingMethod[1].enabled
         /\ Includes(shippingMethods, selectedShippingMethod[1])

(* C17: recomputing the checkout summary with unchanged inputs (cart items,
   applied coupons, selected shipping method, tax rates, gateways) yields the same
   subtotal, discount, shipping total, tax calculation, GST breakdown, grand total
   and selected payment method, and leaves those inputs unchanged: selecting the
   shipping method that is already selected, on a summary computed from these
   inputs, changes nothing. *)
C17_RecomputeIdempotent ==
  [][\A i \in 1..Len(shippingMethods) :
       ( /\ UpdateShippingMethod(shippingMethods[i])
         /\ selectedShippingMethod = Some(shippingMethods[i])
         /\ shippingLines = calculateShippingLines(selectedShippingMethod, cartItems)
         /\ taxCalculation = updateTaxCalculation(cartItems, shippingLines, taxRates) ) =>
           /\ UNCHANGED <<cartItems, appliedCoupons, selectedShippingMethod, taxRates,
                          paymentGateways, shippingMethods>>
           /\ UNCHANGED <<shippingLines, taxCalculation, selectedPaymentMethod>>
           /\ subtotal' = subtotal /\ couponDiscount' = couponDiscount
           /\ shippingTotal' = shippingTotal /\ totalTax' = totalTax
           /\ gstBreakdown' = gstBreakdown /\ total' = total]_vars

\* C17's case: the loaded cart after two presses of shipping options, the second on
\* free shipping: one of the two was a press on the method already selected
C17_Witness ==
  /\ used = [loads |-> 1, ops |-> 2]
  /\ load.pc = "idle" /\ tasks = {} /\ couponTasks = {}
  /\ Len(cartItems) = 2 /\ cartItems[1].quantity = 1 /\ cartItems[2].quantity = 1
  /\ appliedCoupons = InitCoupons /\ \A c \in CouponCodes : ~busyCoupon[c]
  /\ selectedShippingMethod # Null
  /\ selectedShippingMethod[1].method_id = "free_shipping"
  /\ shippingLines = calculateShippingLines(selectedShippingMethod, cartItems)
  /\ taxCalculation # Null

(* C18: during loadCart the tax-rate, shipping-method and payment-gateway fetches
   are all started before any of them is awaited; each feeds only its own state
   slot; no tax, shipping or payment-method computation of that load runs before
   all three have completed, whatever order they complete in; and the outcome of
   the load does not depend on that order. *)
C18_ParallelFetches ==
  [][/\ \* all three are started together, none settled
        (load.pc = "session" /\ load'.pc = "fetch") =>
          /\ taxLoading' /\ shippingLoading'
          /\ \A slot \in FetchSlots : load'[slot] = Null
     /\ \* a fetch settles only once all are started, and until all have settled
        \* nothing is fed to the state and nothing is computed
        (load.pc = "fetch" /\ load'.pc = "fetch") =>
          /\ \E slot \in FetchSlots :
               /\ load[slot] = Null /\ load'[slot] # Null
               /\ \A other \in FetchSlots \ {slot} : load'[other] = load[other]
          /\ UNCHANGED <<taxRates, shippingMethods, paymentGateways, cartItems,
                         selectedShippingMethod, shippingLines, taxCalculation,
                         selectedPaymentMethod>>
     /\ \* the results are taken when all three are there, each into its own slot,
        \* and they are what the fetches returned, in whatever order they did
        (load.pc = "fetch" /\ load'.pc = "customer") =>
          /\ \A slot \in FetchSlots : load[slot] # Null
          /\ taxRates' = (IF "rates" \in load.failed THEN <<>> ELSE ServerRates)
          /\ shippingMethods' =
               (IF "methods" \in load.failed THEN <<>>
                ELSE SelectSeq(ServerMethods, LAMBDA m : m.enabled))
          /\ paymentGateways' = (IF "gateways" \in load.failed THEN <<>> ELSE ServerGateways)
          /\ ~taxLoading' /\ ~shippingLoading'
          /\ taxCalculation' = TaxEffect(cartItems, shippingLines, taxRates', taxCalculation)
          /\ UNCHANGED <<cartItems, selectedShippingMethod, shippingLines>>]_vars

\* C18's case: on a reload the gateways fetch has settled before the other two, and
\* the totals of the previous load are still in place
C18_Witness ==
  /\ load.pc = "fetch" /\ used.loads = 2
  /\ load.gateways # Null /\ load.rates = Null /\ load.methods = Null
  /\ taxLoading /\ shippingLoading
  /\ taxCalculation # Null /\ Len(shippingLines) = 1

(* --------------------------- removing a coupon ----------------------- *)
\* a coupon list without the coupons of one code, the others in their order
Without(list, code) == SelectSeq(list, LAMBDA c : c.code # code)

(* C20: after removeCoupon(code) completes successfully for a logged-in user, no
   applied coupon has that code, every other coupon that was applied when it was
   called is still applied in the same order, the persisted 'applied_coupons' entry
   equals the new local list, and every other customer metadata key (here 'cart') is
   written back as it was read; with no logged-in user nothing about the coupons
   changes. *)
C20_RemoveCoupon ==
  [][/\ \* the call: the new list is the applied list without that code
        \A t \in couponTasks' \ couponTasks : t.pc = "get" =>
          /\ userId # Null
          /\ t.newList = Without(appliedCoupons, t.code)
          /\ Len(t.newList) < Len(appliedCoupons)
          /\ UNCHANGED <<appliedCoupons, serverVars>>
     /\ \* the customer is read: the other keys are taken as they are
        \A t \in couponTasks' \ couponTasks : t.pc = "put" =>
          /\ t.cart = srvCart
          /\ UNCHANGED <<appliedCoupons, serverVars>>
     /\ \* the successful completion
        \A t \in couponTasks \ couponTasks' :
          (busyCoupon[t.code] /\ ~busyCoupon'[t.code]) =>
            /\ \A i \in 1..Len(appliedCoupons') : appliedCoupons'[i].code # t.code
            /\ appliedCoupons' = t.newList
            /\ srvCoupons' = appliedCoupons'
            /\ srvCart' = t.cart
            /\ UNCHANGED <<cartItems, selectedShippingMethod, shippingLines,
                           taxCalculation, selectedPaymentMethod>>
     /\ \* nobody logged in
        userId = Null => UNCHANGED <<appliedCoupons, busyCoupon, couponTasks, serverVars>>
    ]_vars

\* C20's case: removeCoupon('save10') has completed, flat5 is what is left, locally
\* and on the server, and the cart on the server is what the screen shows
C20_Witness ==
  /\ CartShown /\ couponTasks = {} /\ tasks = {}
  /\ appliedCoupons = <<InitCoupons[2]>> /\ srvCoupons = appliedCoupons
  /\ ~busyCoupon["save10"] /\ ~busyCoupon["flat5"]
  /\ used.ops = 1
  /\ srvCart \in InitCarts

\* the codes of the coupons of a list
CodesOf(list) == {list[i].code : i \in 1..Len(list)}

(* C21: when removeCoupon is started for two different codes and the calls overlap,
   then after both have completed neither coupon is applied, locally or in the
   persisted 'applied_coupons' entry, in every completion order. *)
C21_OverlappingRemovals ==
  [][\A t \in couponTasks \ couponTasks' :
       \* t completes as the last call in flight, and the removal of another code,
       \* applied when t was called, has completed in the meantime
       ( /\ busyCoupon[t.code] /\ ~busyCoupon'[t.code]
         /\ couponTasks = {t}
         /\ \E c \in CodesOf(t.newList) : c \notin CodesOf(appliedCoupons) ) =>
       \A c \in CodesOf(t.newList) \cup {t.code} :
         c \notin CodesOf(appliedCoupons') /\ c \notin CodesOf(srvCoupons')
    ]_vars

(* C22: every busy flag an operation sets is cleared once the operation's remote
   calls have settled, whether they succeeded or failed: a busyQty, busyRemove or
   busyCoupon flag is set only while a call of its operation for that item or
   coupon is still in flight, so no control stays disabled for ever. *)
C22_BusyFlagsCleared ==
  /\ \A id \in ProductIds :
       /\ busyQty[id] => \E t \in tasks : t.op = "qty" /\ t.id = id
       /\ busyRemove[id] => \E t \in tasks : t.op = "remove" /\ t.id = id
  /\ \A code \in CouponCodes :
       busyCoupon[code] => \E t \in couponTasks : t.code = code

(* ------------------------ the default method ------------------------ *)
\* r is the default of a method list: an enabled flat_rate method of the list when
\* there is one, otherwise the list's first enabled method, otherwise null
IsDefaultOf(r, methods) ==
  LET enabled == {i \in 1..Len(methods) : methods[i].enabled}
      flat == {i \in enabled : methods[i].method_id = "flat_rate"}
  IN  IF flat # {} THEN \E i \in flat : r = Some(methods[i])
      ELSE IF enabled # {}
        THEN \E i \in enabled : r = Some(methods[i]) /\ \A j \in enabled : i <= j
        ELSE r = Null

(* C23: selectDefaultFlatRateMethod returns an enabled flat_rate method when the
   list has one, otherwise the first enabled method, otherwise null; and when an
   updateQuantity or removeItem that held a loaded method list has persisted, the
   selected shipping method is that list's default, whichever method was selected
   before. *)
C23_DefaultMethod ==
  [][/\ calcOut'.fn = "default" => IsDefaultOf(calcOut'.result, calcIn'.methods)
     /\ \A t \in tasks :
          (PersistDone(t) /\ Len(t.shippingMethods) > 0) =>
            IsDefaultOf(selectedShippingMethod', t.shippingMethods)
    ]_vars

\* C23's case: the user has selected free shipping, which is not the default, and an
\* updateQuantity started with the loaded methods is about to complete
C23_Witness ==
  /\ CartShown /\ load.pc = "idle"
  /\ selectedShippingMethod # Null /\ selectedShippingMethod[1].method_id = "free_shipping"
  /\ \E t \in tasks :
       /\ t.op = "qty" /\ t.shippingMethods = shippingMethods
       /\ \E i \in 1..Len(t.shippingMethods) : t.shippingMethods[i].method_id = "flat_rate"

(* C24: in every quiescent state of the cart screen after a completed loadCart, with
   the loaded cart shown, the
   selected payment method equals determinePaymentMethod(current cart items, current
   payment gateways): a selected method's gateway is enabled in the currently loaded
   gateway list and is never left over from an earlier cart or gateway list. *)
C24_PaymentMethodCurrent ==
  (Quiescent /\ used.loads >= 1 /\ CartShown) =>
    /\ selectedPaymentMethod = determinePaymentMethod(cartItems, paymentGateways)
    /\ selectedPaymentMethod # Null =>
         \E i \in 1..Len(paymentGateways) :
           /\ paymentGateways[i].id = selectedPaymentMethod[1].method
           /\ paymentGateways[i].enabled

(* ----------------------- discount and subtotal ----------------------- *)
(* C25, as claimed: for every cart and every set of applied coupons the coupon
   discount does not exceed the subtotal, so that the grand total is never
   negative. *)
C25_DiscountWithinSubtotal ==
  calcOut.fn = "coupon" =>
    /\ calcOut.discount <= calcIn.subtotal
    /\ calcIn.subtotal - calcOut.discount >= 0

\* the percentages of the percent coupons of a list, added up
RECURSIVE PercentTotal(_)
PercentTotal(coupons) ==
  IF coupons = <<>> THEN 0
  ELSE (IF Head(coupons).discount_type = "percent"
          THEN parseFloat(Head(coupons).amount)[1] ELSE 0)
       + PercentTotal(Tail(coupons))

(* C25, amended: for every non-negative subtotal and every set of applied coupons
   with no fixed-cart coupon and percentages adding up to at most 100, the coupon
   discount is between 0 and the subtotal, so the discounted subtotal that enters
   the grand total is not negative. *)
C25_PercentWithinSubtotal ==
  calcOut.fn = "coupon" =>
    LET cs == calcIn.coupons
    IN  ( /\ \A i \in 1..Len(cs) : cs[i].discount_type # "fixed_cart"
          /\ PercentTotal(cs) <= 100 * One
          /\ calcIn.subtotal >= 0 ) =>
        /\ 0 <= calcOut.discount
        /\ calcOut.discount <= calcIn.subtotal
        /\ calcIn.subtotal - calcOut.discount >= 0

\* C25's case: 10 % and 50 % off a subtotal of 1000.00 take 600.00
C25_Witness ==
  /\ calcOut.fn = "coupon"
  /\ Len(calcIn.coupons) = 2
  /\ calcIn.coupons[1].code = "p10" /\ calcIn.coupons[2].code = "p50"
  /\ calcIn.subtotal = 1000 * One
  /\ calcOut.discount = 600 * One

(* ------------------------ 'People also viewed' ----------------------- *)
(* C26: for a logged-in user, once every addToCart call started from the list has
   completed, the persisted cart holds exactly one entry for every product whose
   addToCart announced 'Item added to cart', and no two entries with the same id. *)
C26_AddedOnce ==
  (pv.calls = {} /\ pv.userId # Null) =>
    /\ \A id \in pv.added : Cardinality({i \in 1..Len(srvCart) : srvCart[i].id = id}) = 1
    /\ \A i, j \in 1..Len(srvCart) : srvCart[i].id = srvCart[j].id => i = j

(* ----------------------------- the chat ----------------------------- *)
\* the product whose conversation a fetched message belongs to (the server numbers
\* the messages of product p from 100 * p)
ProductOfMessage(m) == ParseInt(m.id)[1] \div 100

(* C27: in the chat screen, whenever a product is selected and message loading has
   finished, the fetched messages shown are messages of the currently selected
   product, and the messages are in ascending order of creation time, also when the
   user switched products while a fetchMessages or the delayed refetch of
   sendMessage was in flight. *)
C27_MessagesOfSelectedProduct ==
  (chat.selectedProduct # Null /\ ~chat.loadingMessages) =>
    /\ \A i \in 1..Len(chat.messages) :
         ParseInt(chat.messages[i].id) # Null =>
           ProductOfMessage(chat.messages[i]) = chat.selectedProduct[1]
    /\ \A i, j \in 1..Len(chat.messages) :
         i < j => chat.messages[i].created_at <= chat.messages[j].created_at

(* C28: deleteMessage and editMessage change the local message list only when the
   server answers OK with success=true: delete then removes exactly the message
   with that id and edit replaces only that message's text by the trimmed text.
   On a network error, a non-OK answer or success=false the list is unchanged.
   In every outcome the modal of the operation is closed and selectedMessageId
   and longPressedMessage are cleared. *)
C28_DeleteEditOutcomes ==
  [][\A t \in chat.calls :
       (t.kind \in {"delete", "edit"} /\ t \notin chat'.calls) =>
         /\ t.kind = "delete" =>
              /\ ~chat'.deleteModalVisible
              /\ chat'.messages =
                   IF chat'.alert = "Message deleted successfully"
                     THEN SelectSeq(chat.messages, LAMBDA m : m.id # t.id)
                     ELSE chat.messages
         /\ t.kind = "edit" =>
              /\ ~chat'.editModalVisible
              /\ Len(chat'.messages) = Len(chat.messages)
              /\ \A i \in 1..Len(chat.messages) :
                   chat'.messages[i] =
                     IF chat'.alert = "Message updated successfully"
                          /\ chat.messages[i].id = t.id
                       THEN [chat.messages[i] EXCEPT !.text = Trim(t.text)]
                       ELSE chat.messages[i]
         /\ chat'.selectedMessageId = Null
         /\ chat'.longPressedMessage = Null]_vars

\* a delete was refused while both messages of product 1 were listed: they still are,
\* the modal is closed and the selection is cleared
C28_Witness ==
  /\ chat.alert = "Failed to delete message"
  /\ chat.selectedProduct = Some(1)
  /\ Len(chat.messages) = 2
  /\ ~chat.deleteModalVisible
  /\ chat.selectedMessageId = Null /\ chat.longPressedMessage = Null
  /\ \A t \in chat.calls : t.kind # "delete"

(* ---------------------- the change-password screen ------------------- *)
(* C19: the change-password screen sends a password update to the server only when
   all three fields are non-empty, the new password has at least 6 characters, it
   equals the confirmation and it differs from the current one; when any check
   fails no request is sent and the submitting flag stays false. *)
C19_PasswordValidated ==
  [][LET valid == /\ pwd.currentPwd # <<>> /\ pwd.newPwd # <<>> /\ pwd.confirmPwd # <<>>
                  /\ Len(pwd.newPwd) >= 6
                  /\ pwd.newPwd = pwd.confirmPwd
                  /\ pwd.newPwd # pwd.currentPwd
     IN  /\ pwd'.sent # Null => valid /\ pwd'.sent[1].password = pwd.newPwd
         /\ (HandleSubmit /\ ~valid) =>
              /\ pwd'.sent = Null /\ ~pwd'.submitting /\ pwd'.pc = "idle"
              /\ pwd'.alert # ""
         /\ (~pwd.submitting /\ pwd'.submitting) => valid]_vars

\* C19's case: a valid form was submitted and the update was sent with the new
\* password
C19_Witness ==
  /\ pwd.sent # Null
  /\ pwd.sent[1].password = <<"h", "u", "n", "t", "e", "r", "2">>
  /\ pwd.currentPwd = <<"s", "e", "c", "r", "e", "t">>
  /\ pwd.submitting

====
